---- MODULE Spec2Model ----
(***************************************************************************)
(* Orbitry editor: the versioned project document and its mutations        *)
(* (src/src/lib/exportViewer.ts 419-497, the project library), the editor  *)
(* handlers of App (src/src/App.tsx 27-577) and the asset pipeline         *)
(* (src/src/App.tsx 821-982).                                              *)
(*                                                                         *)
(* JavaScript values are tagged records: [t |-> type, n |-> payload].      *)
(* Strings are numbered (the n-th string); timestamps are clock readings.  *)
(* Identifiers are triples <<prefix, random, time>>, as uid builds them.   *)
(***************************************************************************)
EXTENDS Integers, Sequences, FiniteSets, TLC

VARIABLES
  now,                \* Date.now(): the wall clock, in ticks
  project,            \* App state: project
  selectedSceneId,    \* App state: selectedSceneId (NoId = null)
  selectedHotspotId,  \* App state: selectedHotspotId (NoId = null)
  linkTargetSceneId,  \* App state: linkTargetSceneId (NoId = null)
  hotspotMode,        \* App state: hotspotMode
  assets,             \* App state: assets, sceneId -> StoredAsset & {url}
  importing,          \* App state: importing
  idb,                \* the IndexedDB object store 'assets', keyed by sceneId
  cachedSafeMaxTex,   \* module variable cachedSafeMaxTex (0 = null)
  currentSceneRef,    \* MarzipanoViewer: currentSceneRef (the renderer scene)
  imp,                \* the handleImportFiles call in flight
  load,               \* the loadProject call in flight
  loadError,          \* how the last loadProject call ended
  saved,              \* the file saveProject downloaded last
  exp,                \* the exportViewer call in flight and what it has written
  vw,                 \* the exported viewer, opened in a browser
  norm,               \* a processEquirectToSafeBlob call outside an import
  liveUrls,           \* the object URLs created for assets and not revoked
  probe,              \* the getSafeMaxTextureSize calls made by that code
  fname               \* a safeFileName call: its argument and its result

\* The editor's own state.
editorVars ==
  <<now, project, selectedSceneId, selectedHotspotId, linkTargetSceneId,
    hotspotMode, assets, liveUrls, importing, idb, cachedSafeMaxTex,
    currentSceneRef, imp, load, loadError>>

\* What the editor hands out, and what is run on it.
extVars == <<saved, exp, vw, norm, probe, fname>>

vars == <<editorVars, extVars>>

----------------------------------------------------------------------------
\* Bounds of the model.

\* The clock is read at most up to this tick.
MaxClock == 1
\* The project holds at most this many scenes (imports stop at the cap).
MaxScenes == 2
\* The project holds at most this many hotspots placed in this session
\* (placements stop at the cap); a loaded document brings its own.
MaxHotspots == 1
\* A scene of a loaded document holds at most this many hotspots.
MaxFileHotspots == 2

----------------------------------------------------------------------------
\* JavaScript values.

Num(n) == [t |-> "number", n |-> n]
Str(n) == [t |-> "string", n |-> n]
Undef == [t |-> "undefined", n |-> 0]
Arr(items) == [t |-> "array", items |-> items]
NotArr(t) == [t |-> t, items |-> <<>>]

\* null for an id-valued state (selectedSceneId, linkTargetSceneId, ...).
NoId == <<"none", 0, 0>>

Min(S) == CHOOSE x \in S : \A y \in S : x <= y

Range(seq) == {seq[i] : i \in DOMAIN seq}

----------------------------------------------------------------------------
\* The project library.

\* uid(prefix): `${prefix}_${Math.random()...}_${Date.now()...}`; rnd is the
\* value Math.random() returned and t the value Date.now() returned.
uid(prefix, rnd, t) == <<prefix, rnd, t>>

\* createEmptyProject(title) at clock reading t.
createEmptyProject(title, t) ==
  [kind |-> "object", truthy |-> TRUE, version |-> Num(1), createdAt |-> t,
   updatedAt |-> t, title |-> title, scenes |-> Arr(<<>>)]

\* touchProject that forgets to stamp the copy.
touchProjectNoStamp(p, t) == p

\* touchProject(p) at clock reading t.
touchProject(p, t) == [p EXCEPT !.updatedAt = t]

\* typeof data.
TypeOf(data) ==
  IF data.kind \in {"null", "array", "object"} THEN "object" ELSE data.kind

\* assertIsProject with the title check ahead of the version check.
assertIsProjectTitleFirst(data) ==
  IF ~data.truthy \/ TypeOf(data) # "object" THEN "Project is not an object"
  ELSE IF data.title.t # "string" THEN "Project.title must be a string"
  ELSE IF data.version # Num(1) THEN "Unsupported project version"
  ELSE IF data.scenes.t # "array" THEN "Project.scenes must be an array"
  ELSE "ok"

\* assertIsProject without the title check.
assertIsProjectNoTitle(data) ==
  IF ~data.truthy \/ TypeOf(data) # "object" THEN "Project is not an object"
  ELSE IF data.version # Num(1) THEN "Unsupported project version"
  ELSE IF data.scenes.t # "array" THEN "Project.scenes must be an array"
  ELSE "ok"

\* assertIsProject(data): the message of the Error thrown, or "ok".
assertIsProject(data) ==
  IF ~data.truthy \/ TypeOf(data) # "object" THEN "Project is not an object"
  ELSE IF data.version # Num(1) THEN "Unsupported project version"
  ELSE IF data.title.t # "string" THEN "Project.title must be a string"
  ELSE IF data.scenes.t # "array" THEN "Project.scenes must be an array"
  ELSE "ok"

Scenes(p) == p.scenes.items

SceneIds(p) == {Scenes(p)[i].id : i \in DOMAIN Scenes(p)}

\* scenes.find((s) => s.id === id): the index of the first match, 0 if none.
FindScene(scs, id) ==
  IF \E i \in DOMAIN scs : scs[i].id = id
  THEN Min({i \in DOMAIN scs : scs[i].id = id})
  ELSE 0

\* scenes.find((x) => x.id !== id)?.id ?? null
FirstOtherId(scs, id) ==
  IF \E i \in DOMAIN scs : scs[i].id # id
  THEN scs[Min({i \in DOMAIN scs : scs[i].id # id})].id
  ELSE NoId

----------------------------------------------------------------------------
\* Hotspots and the pure project mutations of App (the setProject updaters).

\* OrbitryInfoHotspot built by addInfoHotspot: title is `Info ${n}`, text ''.
InfoHotspot(id, yaw, pitch, n) ==
  [id |-> id, type |-> "info", yaw |-> yaw, pitch |-> pitch,
   title |-> n, text |-> 0, targetSceneId |-> NoId, rotation |-> -1]

\* OrbitryLinkHotspot built by addLinkHotspot: rotation 0.
LinkHotspot(id, yaw, pitch, target) ==
  [id |-> id, type |-> "link", yaw |-> yaw, pitch |-> pitch,
   title |-> -1, text |-> -1, targetSceneId |-> target, rotation |-> 0]

\* selectedScene.hotspots.filter((h) => h.type === 'info').length
InfoCount(hs) == Cardinality({i \in DOMAIN hs : hs[i].type = "info"})

\* An identifier found in a project file written elsewhere, not drawn by
\* uid in this session.
FirstForeign == 100
IsForeign(id) == id[2] >= FirstForeign

\* The number of hotspots of the project that this session placed.
HotspotCount(p) ==
  Cardinality({<<i, j>> \in (DOMAIN Scenes(p)) \X (1..(MaxHotspots + MaxFileHotspots)) :
                 /\ j \in DOMAIN Scenes(p)[i].hotspots
                 /\ ~IsForeign(Scenes(p)[i].hotspots[j].id)})

\* hotspots.filter with the test inverted: (h) => h.id === hotspotId.
OnlyHotspot(hs, hotspotId) ==
  LET Keep(h) == h.id = hotspotId IN SelectSeq(hs, Keep)

\* hotspots.filter((h) => h.id !== hotspotId)
WithoutHotspot(hs, hotspotId) ==
  LET Keep(h) == h.id # hotspotId IN SelectSeq(hs, Keep)

\* The patches the editor sends to updateHotspot.
Patches == {"title", "targetSceneId"}

\* { ...h, ...patch }
Patched(h, field, value) ==
  CASE field = "title" -> [h EXCEPT !.title = value]
    [] field = "text" -> [h EXCEPT !.text = value]
    [] field = "targetSceneId" -> [h EXCEPT !.targetSceneId = value]
    [] field = "rotation" -> [h EXCEPT !.rotation = value]

\* prev.scenes.map((s) => s.id === sceneId ? { ...s, hotspots: f(s.hotspots) } : s)
\* for the four updaters below.
addedHotspot(prev, sceneId, hotspot, t) ==
  touchProject([prev EXCEPT !.scenes.items =
    [i \in DOMAIN @ |-> IF @[i].id = sceneId
       THEN [@[i] EXCEPT !.hotspots = Append(@, hotspot)] ELSE @[i]]], t)

clearedHotspots(prev, sceneId, t) ==
  touchProject([prev EXCEPT !.scenes.items =
    [i \in DOMAIN @ |-> IF @[i].id = sceneId
       THEN [@[i] EXCEPT !.hotspots = <<>>] ELSE @[i]]], t)

deletedHotspot(prev, sceneId, hotspotId, t) ==
  touchProject([prev EXCEPT !.scenes.items =
    [i \in DOMAIN @ |-> IF @[i].id = sceneId
       THEN [@[i] EXCEPT !.hotspots = WithoutHotspot(@, hotspotId)]
       ELSE @[i]]], t)

updatedHotspot(prev, sceneId, hotspotId, field, value, t) ==
  touchProject([prev EXCEPT !.scenes.items =
    [i \in DOMAIN @ |-> IF @[i].id = sceneId
       THEN [@[i] EXCEPT !.hotspots =
              [j \in DOMAIN @ |-> IF @[j].id = hotspotId
                 THEN Patched(@[j], field, value) ELSE @[j]]]
       ELSE @[i]]], t)

\* The new scenes put before the scenes the project has.
prependedScenes(prev, newScenes, t) ==
  touchProject([prev EXCEPT !.scenes.items = newScenes \o @], t)

\* touchProject({ ...prev, scenes: [...prev.scenes, ...newScenes] })
appendedScenes(prev, newScenes, t) ==
  touchProject([prev EXCEPT !.scenes.items = @ \o newScenes], t)

----------------------------------------------------------------------------
\* The asset pipeline.

SafeFloor == 2048
SafeCeil == 8192
SafeFallback == 4096

\* What the WebGL probe can answer: GlThrows = the probe throws,
\* GlNone = no WebGL context, otherwise MAX_TEXTURE_SIZE.
GlThrows == -2
GlNone == -1
GlOutcomes == {GlThrows, GlNone, 0, 1024, 4096, 16384}
\* The hosts an editor session runs on.
SessionGl == {GlNone}

Max2(a, b) == IF a >= b THEN a ELSE b
Min2(a, b) == IF a <= b THEN a ELSE b

\* The value getSafeMaxTextureSize computes on a cache miss.
probedSafeMax(gl) ==
  IF gl = GlThrows THEN SafeFallback
  ELSE LET max == IF gl = GlNone THEN SafeFallback ELSE gl
       IN Max2(SafeFloor, Min2(IF max = 0 THEN SafeFallback ELSE max, SafeCeil))

\* getSafeMaxTextureSize() asking the surface on every call.
getSafeMaxTextureSizeUncached(cached, gl) == probedSafeMax(gl)

\* getSafeMaxTextureSize(): the cached value, else the probed one.
getSafeMaxTextureSize(cached, gl) ==
  IF cached # 0 THEN cached ELSE probedSafeMax(gl)

\* The record of the calls after one more call, made while the surface would
\* report gl: the surface is asked only when nothing is cached.
probeAfterCall(pr, cached, gl) ==
  [calls |-> pr.calls + 1,
   queries |-> IF cached = 0 THEN pr.queries + 1 ELSE pr.queries,
   first |-> IF cached = 0 /\ pr.queries = 0 THEN gl ELSE pr.first,
   last |-> gl,
   returned |-> pr.returned \cup {getSafeMaxTextureSize(cached, gl)}]

\* Math.floor(a / b) for a >= 0, b > 0.
RoundDown(a, b) == a \div b

\* Math.round(a / b) for a >= 0, b > 0.
Round(a, b) == (2 * a + b) \div (2 * b)

\* The files a user can pick for import: name, pixel size.
Files ==
  { [name |-> 1, width |-> 4000, height |-> 2000],
    [name |-> 2, width |-> 12000, height |-> 6000] }

\* scale === 1 decided with < in place of <=.
KeepsOriginalBelow(file, safeMax) == Max2(file.width, file.height) < safeMax

\* scale === 1 in processEquirectToSafeBlob.
KeepsOriginal(file, safeMax) == Max2(file.width, file.height) <= safeMax

\* width, height of processEquirectToSafeBlob's result.
scaledWidth(file, safeMax) ==
  IF KeepsOriginal(file, safeMax) THEN file.width
  ELSE Round(file.width * safeMax, Max2(file.width, file.height))

scaledHeight(file, safeMax) ==
  IF KeepsOriginal(file, safeMax) THEN file.height
  ELSE Round(file.height * safeMax, Max2(file.width, file.height))

\* The value processEquirectToSafeBlob resolves to; the blob is the file's own
\* bytes ("file") or the canvas encoding ("canvas").
processEquirectToSafeBlob(file, safeMax) ==
  [blob |-> [src |-> IF KeepsOriginal(file, safeMax) THEN "file" ELSE "canvas",
             name |-> file.name,
             width |-> scaledWidth(file, safeMax),
             height |-> scaledHeight(file, safeMax)],
   width |-> scaledWidth(file, safeMax),
   height |-> scaledHeight(file, safeMax),
   originalWidth |-> file.width,
   originalHeight |-> file.height,
   fileName |-> file.name]

\* The OrbitryScene handleImportFiles builds (initialView is the constant
\* {yaw: 0, pitch: 0, fov: 1.25} and is left out); n is
\* project.scenes.length + newScenes.length + 1.
ImportedScene(id, file, res, n) ==
  [id |-> id,
   name |-> IF file.name # 0 THEN <<"base", file.name>> ELSE <<"Scene", n>>,
   panorama |-> [label |-> IF res.originalWidth # res.width
                             THEN "scaled" ELSE "equirect",
                 fileName |-> res.fileName,
                 width |-> res.originalWidth,
                 height |-> res.originalHeight],
   hotspots |-> <<>>]

\* The StoredAsset handleImportFiles builds.
StoredOf(id, res, t) ==
  [sceneId |-> id, fileName |-> res.fileName, blob |-> res.blob,
   width |-> res.width, height |-> res.height,
   originalWidth |-> res.originalWidth, originalHeight |-> res.originalHeight,
   updatedAt |-> t]

\* Object URLs are opaque handles, numbered in the order of their creation;
\* createObjectURL never returns one it has returned before. The asset map
\* never loses an entry, so the URL created last is in it when the next one
\* is created.
UrlsInUse(as, cur) == {as[k].url : k \in DOMAIN as} \cup {cur.url}

FreshUrl(as, cur) ==
  1 + (CHOOSE n \in UrlsInUse(as, cur) : \A m \in UrlsInUse(as, cur) : m <= n)

\* upsertAsset revoking nothing.
revokedUrlsNone(prev, sceneId) == {}

\* The object URL upsertAsset revokes: that of the asset it replaces.
revokedUrls(prev, sceneId) ==
  IF sceneId \in DOMAIN prev THEN {prev[sceneId].url} ELSE {}

\* The object URLs that are live after upsertAsset(sceneId, asset).
liveAfterUpsert(live, prev, sceneId, url) ==
  (live \ revokedUrls(prev, sceneId)) \cup {url}

\* upsertAsset(sceneId, asset): the setAssets updater.
upsertAsset(prev, sceneId, asset, url) ==
  [k \in DOMAIN prev \cup {sceneId} |->
     IF k = sceneId THEN [asset |-> asset, url |-> url] ELSE prev[k]]

----------------------------------------------------------------------------
\* The state after construction.

\* currentSceneRef.current === null
NoScene == [sceneId |-> NoId, url |-> -1]

\* No handleImportFiles call in flight.
NoAssets == [k \in {} |-> 0]
ImpIdle ==
  [pc |-> "idle", files |-> <<>>, idx |-> 0, newScenes |-> <<>>,
   capSceneIds |-> <<>>, capSelected |-> NoId, capLink |-> NoId,
   safeMax |-> 0, pending |-> <<>>]

\* The handleImportFiles call has rejected: its locals are gone, and nothing
\* resets importing.
ImpFailed == [ImpIdle EXCEPT !.pc = "failed"]

\* No loadProject call in flight.
NoData ==
  [kind |-> "null", truthy |-> FALSE, version |-> Undef, createdAt |-> -1,
   updatedAt |-> -1, title |-> Undef, scenes |-> NotArr("undefined")]
LoadIdle == [pc |-> "idle", parses |-> FALSE, data |-> NoData, idx |-> 0]

\* The title 'Orbitry MVP'.
DefaultTitle == Str(0)

\* Nothing saved, exported, viewed or normalized yet.
NoSaved == <<>>
ExpIdle == [pc |-> "idle"]
VwClosed == [pc |-> "closed"]
NoHeld == [bitmap |-> "none", url |-> "none"]
NormIdle ==
  [pc |-> "idle", file |-> <<>>, safeMax |-> 0, res |-> <<>>, first |-> <<>>,
   runs |-> 0, held |-> NoHeld]
GlUnasked == -3
ProbeIdle ==
  [calls |-> 0, queries |-> 0, first |-> GlUnasked, last |-> GlUnasked,
   returned |-> {}]
NoName == [name |-> <<>>, out |-> <<>>]

ExtInit ==
  /\ saved = NoSaved
  /\ exp = ExpIdle
  /\ vw = VwClosed
  /\ norm = NormIdle
  /\ probe = ProbeIdle
  /\ fname = NoName

Init ==
  /\ ExtInit
  /\ now = 0
  /\ project = createEmptyProject(DefaultTitle, 0)
  /\ selectedSceneId = NoId
  /\ selectedHotspotId = NoId
  /\ linkTargetSceneId = NoId
  /\ hotspotMode = "navigate"
  /\ assets = NoAssets
  /\ liveUrls = {}
  /\ importing = FALSE
  /\ idb = NoAssets
  /\ cachedSafeMaxTex = 0
  /\ currentSceneRef = NoScene
  /\ imp = ImpIdle
  /\ load = LoadIdle
  /\ loadError = "none"

----------------------------------------------------------------------------
\* Derived values of a render.

\* selectedScene: scenes.find((s) => s.id === selectedSceneId) || null
HasSelectedScene == FindScene(Scenes(project), selectedSceneId) # 0
selectedScene == Scenes(project)[FindScene(Scenes(project), selectedSceneId)]

\* linkTargets: project.scenes.filter((s) => s.id !== selectedScene.id)
linkTargets ==
  IF HasSelectedScene
  THEN {id \in SceneIds(project) : id # selectedScene.id}
  ELSE {}

\* selectedHotspot: selectedScene.hotspots.find((h) => h.id === selectedHotspotId)
HasSelectedHotspot ==
  /\ HasSelectedScene
  /\ selectedHotspotId # NoId
  /\ \E j \in DOMAIN selectedScene.hotspots :
       selectedScene.hotspots[j].id = selectedHotspotId
selectedHotspot ==
  selectedScene.hotspots[Min({j \in DOMAIN selectedScene.hotspots :
                               selectedScene.hotspots[j].id = selectedHotspotId})]

\* MarzipanoViewer's scene-switch effect, run after a render with the given
\* project, selection and assets: a renderer scene is created when both the
\* scene and its panorama URL exist, else the ref keeps its value.
ViewerEffect(p, sel, as, cur) ==
  IF FindScene(Scenes(p), sel) # 0 /\ sel \in DOMAIN as
  THEN [sceneId |-> sel, url |-> as[sel].url]
  ELSE cur

\* Math.random(): a value no identifier still referred to carries (collisions
\* are improbable, not impossible: uid's guarantee is statistical).
IdsOfScenes(scs) ==
  {scs[i].id : i \in DOMAIN scs}
  \cup UNION {{scs[i].hotspots[j].id : j \in DOMAIN scs[i].hotspots} : i \in DOMAIN scs}
  \cup UNION {{scs[i].hotspots[j].targetSceneId : j \in DOMAIN scs[i].hotspots} :
              i \in DOMAIN scs}

IdsInUse ==
  IdsOfScenes(Scenes(project)) \cup IdsOfScenes(imp.newScenes)
  \cup Range(imp.capSceneIds) \cup IdsOfScenes(load.data.scenes.items)
  \cup DOMAIN idb \cup DOMAIN assets
  \cup {selectedSceneId, selectedHotspotId, linkTargetSceneId,
        currentSceneRef.sceneId, imp.capSelected, imp.capLink}
  \cup {imp.pending[i].id : i \in DOMAIN imp.pending}

RandomDraw ==
  Min({n \in 1..(Cardinality(IdsInUse) + 1) : \A id \in IdsInUse : id[2] # n})

----------------------------------------------------------------------------
\* The editor's synchronous handlers.

appVars ==
  <<project, selectedSceneId, selectedHotspotId, linkTargetSceneId,
    hotspotMode, assets, liveUrls, importing, idb, cachedSafeMaxTex,
    currentSceneRef>>

asyncVars == <<imp, load, loadError>>

\* Time passes.
Tick ==
  /\ now < MaxClock
  /\ now' = now + 1
  /\ UNCHANGED <<appVars, asyncVars>>
  /\ UNCHANGED extVars

\* Click on a scene of the scene list.
SelectScene(i) ==
  /\ i \in DOMAIN Scenes(project)
  /\ selectedSceneId' = Scenes(project)[i].id
  /\ selectedHotspotId' = NoId
  /\ linkTargetSceneId' = FirstOtherId(Scenes(project), Scenes(project)[i].id)
  /\ currentSceneRef' =
       ViewerEffect(project, selectedSceneId', assets, currentSceneRef)
  /\ UNCHANGED <<now, project, hotspotMode, assets, liveUrls, importing, idb,
                 cachedSafeMaxTex, asyncVars>>
  /\ UNCHANGED extVars

\* The Move / Info / Link buttons.
SetHotspotMode(m) ==
  /\ HasSelectedScene
  /\ m = "link" => Len(Scenes(project)) >= 2
  /\ hotspotMode' = m
  /\ UNCHANGED <<now, project, selectedSceneId, selectedHotspotId,
                 linkTargetSceneId, assets, liveUrls, importing, idb, cachedSafeMaxTex,
                 currentSceneRef, asyncVars>>
  /\ UNCHANGED extVars

\* The link-target select, shown in Link mode.
SetLinkTarget(v) ==
  /\ hotspotMode = "link"
  /\ HasSelectedScene
  /\ linkTargets # {}
  /\ v \in linkTargets \cup {NoId}
  /\ linkTargetSceneId' = v
  /\ UNCHANGED <<now, project, selectedSceneId, selectedHotspotId, hotspotMode,
                 assets, liveUrls, importing, idb, cachedSafeMaxTex, currentSceneRef,
                 asyncVars>>
  /\ UNCHANGED extVars

\* Click on a hotspot of the list (or, in an edit mode, in the viewer).
SelectHotspot(j) ==
  /\ HasSelectedScene
  /\ j \in DOMAIN selectedScene.hotspots
  /\ selectedHotspotId' = selectedScene.hotspots[j].id
  /\ UNCHANGED <<now, project, selectedSceneId, linkTargetSceneId, hotspotMode,
                 assets, liveUrls, importing, idb, cachedSafeMaxTex, currentSceneRef,
                 asyncVars>>
  /\ UNCHANGED extVars

\* The angles a click in the viewer resolves to.
Angles == {0}

\* A click in the viewer in Info mode: onUpOrCancel, onClickInViewer,
\* addInfoHotspot.
AddInfoHotspot(yaw, pitch) ==
  /\ currentSceneRef # NoScene
  /\ HasSelectedScene
  /\ hotspotMode = "info"
  /\ HotspotCount(project) < MaxHotspots
  /\ LET id == uid("hs", RandomDraw, now)
         hotspot == InfoHotspot(id, yaw, pitch,
                                InfoCount(selectedScene.hotspots) + 1)
     IN /\ project' = addedHotspot(project, selectedScene.id, hotspot, now)
        /\ selectedHotspotId' = id
  /\ UNCHANGED <<now, selectedSceneId, linkTargetSceneId, hotspotMode, assets, liveUrls,
                 importing, idb, cachedSafeMaxTex, currentSceneRef, asyncVars>>
  /\ UNCHANGED extVars

\* A click in the viewer in Link mode: onUpOrCancel, onClickInViewer,
\* addLinkHotspot.
AddLinkHotspot(yaw, pitch) ==
  /\ currentSceneRef # NoScene
  /\ HasSelectedScene
  /\ hotspotMode = "link"
  /\ linkTargetSceneId # NoId
  /\ linkTargetSceneId # selectedScene.id
  /\ HotspotCount(project) < MaxHotspots
  /\ LET id == uid("hs", RandomDraw, now)
         hotspot == LinkHotspot(id, yaw, pitch, linkTargetSceneId)
     IN /\ project' = addedHotspot(project, selectedScene.id, hotspot, now)
        /\ selectedHotspotId' = id
  /\ UNCHANGED <<now, selectedSceneId, linkTargetSceneId, hotspotMode, assets, liveUrls,
                 importing, idb, cachedSafeMaxTex, currentSceneRef, asyncVars>>
  /\ UNCHANGED extVars

\* The Clear button.
ClearHotspots ==
  /\ HasSelectedScene
  /\ selectedScene.hotspots # <<>>
  /\ project' = clearedHotspots(project, selectedScene.id, now)
  /\ selectedHotspotId' = NoId
  /\ UNCHANGED <<now, selectedSceneId, linkTargetSceneId, hotspotMode, assets, liveUrls,
                 importing, idb, cachedSafeMaxTex, currentSceneRef, asyncVars>>
  /\ UNCHANGED extVars

\* The delete button of a hotspot of the list.
DeleteHotspot(j) ==
  /\ HasSelectedScene
  /\ j \in DOMAIN selectedScene.hotspots
  /\ LET hotspotId == selectedScene.hotspots[j].id
     IN /\ project' = deletedHotspot(project, selectedScene.id, hotspotId, now)
        /\ selectedHotspotId' =
             IF selectedHotspotId = hotspotId THEN NoId ELSE selectedHotspotId
  /\ UNCHANGED <<now, selectedSceneId, linkTargetSceneId, hotspotMode, assets, liveUrls,
                 importing, idb, cachedSafeMaxTex, currentSceneRef, asyncVars>>
  /\ UNCHANGED extVars

\* The values the "Edit selected" inputs can send for a field; EditedText is a
\* text the user typed, EditedRotation an angle the user chose.
EditedText == 9
EditedRotation == 1
PatchValues(field) ==
  CASE field = "title" -> {EditedText}
    [] field = "text" -> {EditedText}
    [] field = "targetSceneId" -> linkTargets
    [] field = "rotation" -> {EditedRotation}

\* The "Edit selected" inputs (and the viewer's rotate handle): updateHotspot.
UpdateHotspot(field, value) ==
  /\ HasSelectedHotspot
  /\ field \in (IF selectedHotspot.type = "info"
                THEN {"title"} ELSE {"targetSceneId"})
  /\ value \in PatchValues(field)
  /\ project' = updatedHotspot(project, selectedScene.id, selectedHotspotId,
                               field, value, now)
  /\ UNCHANGED <<now, selectedSceneId, selectedHotspotId, linkTargetSceneId,
                 hotspotMode, assets, liveUrls, importing, idb, cachedSafeMaxTex,
                 currentSceneRef, asyncVars>>
  /\ UNCHANGED extVars

\* A click on a link hotspot in the viewer in Move mode: onLinkHotspotClick.
FollowLink(j) ==
  /\ currentSceneRef # NoScene
  /\ HasSelectedScene
  /\ hotspotMode = "navigate"
  /\ j \in DOMAIN selectedScene.hotspots
  /\ selectedScene.hotspots[j].type = "link"
  /\ selectedScene.hotspots[j].targetSceneId \in SceneIds(project)
  /\ selectedSceneId' = selectedScene.hotspots[j].targetSceneId
  /\ selectedHotspotId' = NoId
  /\ currentSceneRef' =
       ViewerEffect(project, selectedSceneId', assets, currentSceneRef)
  /\ UNCHANGED <<now, project, linkTargetSceneId, hotspotMode, assets, liveUrls,
                 importing, idb, cachedSafeMaxTex, asyncVars>>
  /\ UNCHANGED extVars

----------------------------------------------------------------------------
\* handleImportFiles. Its steps are the stretches of code between two awaits
\* on real I/O (image decode, canvas encode, the IndexedDB transaction); the
\* await on getSafeMaxTextureSize resumes before any other event is served.

\* The batches a user can pick.
Batches ==
  UNION {[1..n -> Files] : n \in 1..MaxScenes}

\* saveAssetToIdb that resolves without having written the asset.
idbAfterPutLost(store, stored, ok) == store

\* saveAssetToIdb(asset): the store after the transaction, which completes
\* (ok) or fails.
idbAfterPut(store, stored, ok) ==
  IF ok
  THEN [k \in DOMAIN store \cup {stored.sceneId} |->
          IF k = stored.sceneId THEN stored ELSE store[k]]
  ELSE store

\* The Import button and the file picker, up to the first decode. The user
\* picks files for import only when no loadProject call is in flight.
ImportStart(files, gl) ==
  /\ ~importing
  /\ imp.pc = "idle"
  /\ load.pc = "idle"
  /\ files \in Batches
  /\ Len(Scenes(project)) + Len(files) <= MaxScenes
  /\ importing' = TRUE
  /\ cachedSafeMaxTex' = getSafeMaxTextureSize(cachedSafeMaxTex, gl)
  /\ imp' = [pc |-> "decode", files |-> files, idx |-> 1, newScenes |-> <<>>,
             capSceneIds |-> [i \in DOMAIN Scenes(project) |->
                               Scenes(project)[i].id],
             capSelected |-> selectedSceneId,
             capLink |-> linkTargetSceneId, safeMax |-> cachedSafeMaxTex',
             pending |-> <<>>]
  /\ UNCHANGED <<now, project, selectedSceneId, selectedHotspotId,
                 linkTargetSceneId, hotspotMode, assets, liveUrls, idb, currentSceneRef,
                 load, loadError>>
  /\ UNCHANGED extVars

\* processEquirectToSafeBlob has resolved: uid, the scene and the stored asset
\* are built and saveAssetToIdb is called.
ImpToPersist ==
  LET file == imp.files[imp.idx]
      res == processEquirectToSafeBlob(file, imp.safeMax)
      id == uid("scene", RandomDraw, now)
  IN [imp EXCEPT !.pc = "persist",
        !.pending = <<[id |-> id,
                       scene |-> ImportedScene(id, file, res,
                                   Len(imp.capSceneIds) + Len(imp.newScenes) + 1),
                       stored |-> StoredOf(id, res, now)]>>]

\* The decode of the current file ends: it fails, or the image fits and is
\* kept as it is, or it is drawn on a canvas (which may have no 2D context)
\* and encoded.
ImportDecoded(outcome) ==
  /\ imp.pc = "decode"
  /\ outcome \in {"ok", "decodeError", "noContext"}
  /\ imp' =
       IF outcome = "decodeError" THEN ImpFailed
       ELSE IF KeepsOriginal(imp.files[imp.idx], imp.safeMax) THEN ImpToPersist
       ELSE IF outcome = "noContext" THEN ImpFailed
       ELSE [imp EXCEPT !.pc = "encode"]
  /\ UNCHANGED <<now, appVars, load, loadError>>
  /\ UNCHANGED extVars

\* canvas.toBlob calls back, with a blob or with null.
ImportEncoded(ok) ==
  /\ imp.pc = "encode"
  /\ imp' = IF ok THEN ImpToPersist ELSE ImpFailed
  /\ UNCHANGED <<now, appVars, load, loadError>>
  /\ UNCHANGED extVars

\* The link target handleImportFiles picks after the batch.
ImportLinkDefault(capSceneIds, newScenes, capSelected) ==
  LET all == capSceneIds \o [i \in DOMAIN newScenes |-> newScenes[i].id]
      firstSceneId == IF capSelected # NoId THEN capSelected ELSE newScenes[1].id
  IN IF \E i \in DOMAIN all : all[i] # firstSceneId
     THEN all[Min({i \in DOMAIN all : all[i] # firstSceneId})]
     ELSE NoId

\* The IndexedDB transaction of saveAssetToIdb ends. On success the asset is
\* installed and the scene pushed; then the next file is decoded or, after
\* the last file, the scenes are appended and the batch ends.
ImportPersisted(ok) ==
  /\ imp.pc = "persist"
  /\ LET p == imp.pending[1]
         newScenes == Append(imp.newScenes, p.scene)
     IN /\ idb' = idbAfterPut(idb, p.stored, ok)
        /\ IF ~ok
           THEN /\ imp' = ImpFailed
                /\ UNCHANGED <<project, selectedSceneId, linkTargetSceneId,
                               assets, liveUrls, importing, currentSceneRef>>
           ELSE /\ assets' = upsertAsset(assets, p.id, p.stored,
                                          FreshUrl(assets, currentSceneRef))
                /\ liveUrls' = liveAfterUpsert(liveUrls, assets, p.id,
                                               FreshUrl(assets, currentSceneRef))
                /\ IF imp.idx < Len(imp.files)
                   THEN /\ imp' = [imp EXCEPT !.pc = "decode", !.idx = @ + 1,
                                     !.newScenes = newScenes, !.pending = <<>>]
                        /\ UNCHANGED <<project, selectedSceneId,
                                       linkTargetSceneId, importing>>
                   ELSE /\ imp' = ImpIdle
                        /\ project' = appendedScenes(project, newScenes, now)
                        /\ selectedSceneId' =
                             IF imp.capSelected = NoId THEN newScenes[1].id
                             ELSE selectedSceneId
                        /\ linkTargetSceneId' =
                             IF imp.capLink = NoId
                             THEN ImportLinkDefault(imp.capSceneIds, newScenes,
                                                    imp.capSelected)
                             ELSE linkTargetSceneId
                        /\ importing' = FALSE
                /\ currentSceneRef' =
                     ViewerEffect(project', selectedSceneId', assets',
                                  currentSceneRef)
  /\ UNCHANGED <<now, selectedHotspotId, hotspotMode, cachedSafeMaxTex, load,
                 loadError>>
  /\ UNCHANGED extVars

----------------------------------------------------------------------------
\* The files a user can pick for loading: a text that JSON.parse rejects
\* (parses = FALSE) or the value it parses to.

\* Ids found in project files written elsewhere.
IdA == <<"scene", 101, 0>>
IdB == <<"scene", 102, 0>>
IdMissing == <<"scene", 103, 0>>
IdH == <<"hs", 111, 0>>

FileScene(id, hotspots) ==
  [id |-> id, name |-> <<"base", 1>>,
   panorama |-> [label |-> "equirect", fileName |-> 1,
                 width |-> 4000, height |-> 2000],
   hotspots |-> hotspots]

\* Two scenes with the same id, the first with two hotspots of the same id,
\* one of them a link to a scene that is not in the file.
DupScenes ==
  << FileScene(IdA, <<InfoHotspot(IdH, 0, 0, 1),
                      LinkHotspot(IdH, 0, 0, IdMissing)>>),
     FileScene(IdA, <<>>) >>

\* Two scenes with the same id, the first with a link to a scene that is not
\* in the file.
SessionScenes ==
  << FileScene(IdA, <<LinkHotspot(IdH, 0, 0, IdMissing)>>),
     FileScene(IdA, <<>>) >>

\* Two scenes, the first with a link to a scene that is not in the file.
DanglingScenes ==
  << FileScene(IdA, <<LinkHotspot(IdH, 0, 0, IdMissing)>>),
     FileScene(IdB, <<>>) >>

\* A JSON value that is no object: null, a number, a string, a boolean.
Primitive(kind, truthy) ==
  [kind |-> kind, truthy |-> truthy, version |-> Undef, createdAt |-> -1,
   updatedAt |-> -1, title |-> Undef, scenes |-> NotArr("undefined")]

\* A JSON object with the given members.
ObjectValue(version, title, scenes) ==
  [kind |-> "object", truthy |-> TRUE, version |-> version, createdAt |-> 0,
   updatedAt |-> 0, title |-> title, scenes |-> scenes]

\* A JSON array: an object without the members of a project.
ArrayValue ==
  [kind |-> "array", truthy |-> TRUE, version |-> Undef, createdAt |-> -1,
   updatedAt |-> -1, title |-> Undef, scenes |-> NotArr("undefined")]

Versions == {Undef, Num(0), Num(1), Num(2), Str(1)}
Titles == {Undef, Str(1), Num(1)}
SceneLists ==
  {NotArr("undefined"), NotArr("object"), NotArr("string"),
   Arr(<<>>), Arr(DupScenes), Arr(DanglingScenes)}

\* Every value a project file can parse to, within the sets above.
Candidates ==
  {Primitive("null", FALSE), Primitive("number", FALSE),
   Primitive("number", TRUE), Primitive("string", FALSE),
   Primitive("string", TRUE), Primitive("boolean", FALSE),
   Primitive("boolean", TRUE), ArrayValue}
  \cup {ObjectValue(v, t, s) : v \in Versions, t \in Titles, s \in SceneLists}

\* The project files the editor session is offered.
Docs ==
  { [parses |-> FALSE, data |-> NoData],
    [parses |-> TRUE, data |-> ObjectValue(Num(2), Str(1), Arr(DanglingScenes))],
    [parses |-> TRUE, data |-> ObjectValue(Num(1), Str(1), Arr(SessionScenes))] }

----------------------------------------------------------------------------
\* JSON.stringify and JSON.parse on project documents. A JSON text is a tree
\* of members <<key, tag, payload>>: tag "n" a number, "s" a string, "a" an
\* array, "o" an object. A property that is absent (or undefined) has no
\* member; in the model's records it is -1, or NoId for an id.

HotspotKeys ==
  <<"id", "type", "yaw", "pitch", "title", "text", "targetSceneId", "rotation">>

HasMember(h, key) ==
  CASE key = "title" -> h.title # -1
    [] key = "text" -> h.text # -1
    [] key = "targetSceneId" -> h.targetSceneId # NoId
    [] key = "rotation" -> h.rotation # -1
    [] OTHER -> TRUE

MemberOf(h, key) ==
  CASE key = "id" -> <<key, "s", h.id>>
    [] key = "type" -> <<key, "s", h.type>>
    [] key = "yaw" -> <<key, "n", h.yaw>>
    [] key = "pitch" -> <<key, "n", h.pitch>>
    [] key = "title" -> <<key, "s", h.title>>
    [] key = "text" -> <<key, "s", h.text>>
    [] key = "targetSceneId" -> <<key, "s", h.targetSceneId>>
    [] key = "rotation" -> <<key, "n", h.rotation>>

\* A serializer that leaves out members whose value is falsy ('' and 0).
stringifyHotspotTruthy(h) ==
  LET Keep(key) == /\ HasMember(h, key)
                   /\ key = "title" => h.title # 0
                   /\ key = "text" => h.text # 0
      keys == SelectSeq(HotspotKeys, Keep)
  IN [i \in DOMAIN keys |-> MemberOf(h, keys[i])]

\* JSON.stringify of a hotspot: one member per property it has.
stringifyHotspot(h) ==
  LET Keep(key) == HasMember(h, key)
      keys == SelectSeq(HotspotKeys, Keep)
  IN [i \in DOMAIN keys |-> MemberOf(h, keys[i])]

\* The payload of the member with the key, or the default if there is none.
Get(members, key, default) ==
  IF \E i \in DOMAIN members : members[i][1] = key
  THEN members[Min({i \in DOMAIN members : members[i][1] = key})][3]
  ELSE default

parseHotspot(members) ==
  [id |-> Get(members, "id", NoId), type |-> Get(members, "type", "none"),
   yaw |-> Get(members, "yaw", -1), pitch |-> Get(members, "pitch", -1),
   title |-> Get(members, "title", -1), text |-> Get(members, "text", -1),
   targetSceneId |-> Get(members, "targetSceneId", NoId),
   rotation |-> Get(members, "rotation", -1)]

stringifyScene(sc) ==
  << <<"id", "s", sc.id>>,
     <<"name", "s", sc.name>>,
     <<"panorama", "o",
       << <<"label", "s", sc.panorama.label>>,
          <<"fileName", "s", sc.panorama.fileName>>,
          <<"width", "n", sc.panorama.width>>,
          <<"height", "n", sc.panorama.height>> >> >>,
     <<"hotspots", "a",
       [j \in DOMAIN sc.hotspots |-> stringifyHotspot(sc.hotspots[j])]>> >>

parseScene(members) ==
  LET pano == Get(members, "panorama", <<>>)
      hs == Get(members, "hotspots", <<>>)
  IN [id |-> Get(members, "id", NoId),
      name |-> Get(members, "name", -1),
      panorama |-> [label |-> Get(pano, "label", -1),
                    fileName |-> Get(pano, "fileName", -1),
                    width |-> Get(pano, "width", -1),
                    height |-> Get(pano, "height", -1)],
      hotspots |-> [j \in DOMAIN hs |-> parseHotspot(hs[j])]]

\* JSON.stringify(project, null, 2), for a project the editor holds.
JSONstringify(p) ==
  << <<"version", "n", p.version.n>>,
     <<"createdAt", "s", p.createdAt>>,
     <<"updatedAt", "s", p.updatedAt>>,
     <<"title", "s", p.title.n>>,
     <<"scenes", "a",
       [i \in DOMAIN Scenes(p) |-> stringifyScene(Scenes(p)[i])]>> >>

\* The value a JSON member holds, typed by its tag.
TypedMember(members, key) ==
  IF \E i \in DOMAIN members : members[i][1] = key
  THEN LET m == members[Min({i \in DOMAIN members : members[i][1] = key})]
       IN IF m[2] = "n" THEN Num(m[3]) ELSE Str(m[3])
  ELSE Undef

\* JSON.parse of a text JSON.stringify wrote for a project.
JSONparse(text) ==
  LET scs == Get(text, "scenes", <<>>)
  IN [kind |-> "object", truthy |-> TRUE,
      version |-> TypedMember(text, "version"),
      createdAt |-> Get(text, "createdAt", -1),
      updatedAt |-> Get(text, "updatedAt", -1),
      title |-> TypedMember(text, "title"),
      scenes |-> Arr([i \in DOMAIN scs |-> parseScene(scs[i])])]

\* The files saveProject has downloaded, picked again for loading.
SavedFiles ==
  {[parses |-> TRUE, data |-> JSONparse(saved[i])] : i \in DOMAIN saved}

\* A project file with hotspots of every shape: an info hotspot with an empty
\* text, an info hotspot without title and text, a link hotspot.
IdC == <<"scene", 104, 0>>
IdD == <<"scene", 105, 0>>
IdH1 == <<"hs", 112, 0>>
IdH2 == <<"hs", 113, 0>>
IdH3 == <<"hs", 114, 0>>
SaveScenes ==
  << FileScene(IdC, << InfoHotspot(IdH1, 0, 0, 1),
                       LinkHotspot(IdH3, 0, 0, IdD) >>),
     FileScene(IdD, << [InfoHotspot(IdH2, 0, 0, 1) EXCEPT !.title = -1,
                                                          !.text = -1] >>) >>

SaveDocs ==
  { [parses |-> TRUE, data |-> ObjectValue(Num(1), Str(1), Arr(SaveScenes))] }

----------------------------------------------------------------------------
\* loadProject. Its steps: reading the file's text, then one IndexedDB read
\* per scene of the loaded document.

\* How the parse-and-validate stretch ends: "SyntaxError" (JSON.parse throws),
\* the message assertIsProject throws, or "ok".
ParseVerdict(file) ==
  IF ~file.parses THEN "SyntaxError" ELSE assertIsProject(file.data)

\* loadProject that installs the parsed document before validating it.
LoadedProjectEager(cur, file) ==
  IF file.parses /\ file.data.kind = "object" THEN file.data ELSE cur

\* The project after the parse-and-validate stretch of loadProject.
LoadedProject(cur, file) ==
  IF ParseVerdict(file) = "ok" THEN file.data ELSE cur

\* The Load button and the file picker; file.text() is awaited. One
\* loadProject call is followed at a time.
LoadStart(file) ==
  /\ ~importing
  /\ load.pc = "idle"
  /\ file \in Docs \cup SaveDocs \cup SavedFiles
  /\ load' = [pc |-> "text", parses |-> file.parses, data |-> file.data,
              idx |-> 0]
  /\ loadError' = "none"
  /\ UNCHANGED <<now, appVars, imp>>
  /\ UNCHANGED extVars

\* data.scenes[0]?.id ?? null
FirstSceneId(scs) == IF scs = <<>> THEN NoId ELSE scs[1].id

\* The text has been read: JSON.parse, assertIsProject, and on success the
\* document is installed and the rehydration loop starts.
LoadParsed ==
  /\ load.pc = "text"
  /\ LET file == [parses |-> load.parses, data |-> load.data]
         verdict == ParseVerdict(file)
     IN /\ project' = LoadedProject(project, file)
        /\ IF verdict # "ok"
           THEN /\ loadError' = verdict
                /\ load' = LoadIdle
                /\ UNCHANGED <<selectedSceneId, selectedHotspotId,
                               linkTargetSceneId, currentSceneRef>>
           ELSE /\ loadError' = "none"
                /\ selectedSceneId' = FirstSceneId(Scenes(load.data))
                /\ selectedHotspotId' = NoId
                /\ IF Scenes(load.data) = <<>>
                   THEN /\ load' = LoadIdle
                        /\ linkTargetSceneId' = NoId
                   ELSE /\ load' = [load EXCEPT !.pc = "rehydrate", !.idx = 1]
                        /\ UNCHANGED linkTargetSceneId
                /\ currentSceneRef' =
                     ViewerEffect(project', selectedSceneId', assets,
                                  currentSceneRef)
  /\ UNCHANGED <<now, hotspotMode, assets, liveUrls, importing, idb, cachedSafeMaxTex,
                 imp>>
  /\ UNCHANGED extVars

\* loadAssetFromIdb(s.id) for the current scene ends: the read fails (the
\* call is abandoned), or it finds nothing, or the asset found is installed;
\* after the last scene the link target is set.
LoadRehydrated(ok) ==
  /\ load.pc = "rehydrate"
  /\ LET scs == Scenes(load.data)
         id == scs[load.idx].id
     IN IF ~ok
        THEN /\ loadError' = "IdbError"
             /\ load' = LoadIdle
             /\ UNCHANGED <<assets, liveUrls, linkTargetSceneId, currentSceneRef>>
        ELSE /\ assets' =
                  IF id \in DOMAIN idb
                  THEN upsertAsset(assets, id, idb[id],
                                   FreshUrl(assets, currentSceneRef))
                  ELSE assets
             /\ liveUrls' =
                  IF id \in DOMAIN idb
                  THEN liveAfterUpsert(liveUrls, assets, id,
                                       FreshUrl(assets, currentSceneRef))
                  ELSE liveUrls
             /\ IF load.idx < Len(scs)
                THEN /\ load' = [load EXCEPT !.idx = @ + 1]
                     /\ UNCHANGED linkTargetSceneId
                ELSE /\ load' = LoadIdle
                     /\ linkTargetSceneId' = FirstOtherId(scs, scs[1].id)
             /\ currentSceneRef' =
                  ViewerEffect(project, selectedSceneId, assets',
                               currentSceneRef)
             /\ UNCHANGED loadError
  /\ UNCHANGED <<now, project, selectedSceneId, selectedHotspotId, hotspotMode,
                 importing, idb, cachedSafeMaxTex, imp>>
  /\ UNCHANGED extVars

----------------------------------------------------------------------------
\* The editor session.

Next ==
  \/ Tick
  \/ \E i \in 1..(2 * MaxScenes) : SelectScene(i)
  \/ \E m \in {"navigate", "info", "link"} : SetHotspotMode(m)
  \/ \E v \in SceneIds(project) \cup {NoId} : SetLinkTarget(v)
  \/ \E j \in 1..(MaxHotspots + MaxFileHotspots) : SelectHotspot(j)
  \/ \E yaw \in Angles, pitch \in Angles : AddInfoHotspot(yaw, pitch)
  \/ \E yaw \in Angles, pitch \in Angles : AddLinkHotspot(yaw, pitch)
  \/ ClearHotspots
  \/ \E j \in 1..(MaxHotspots + MaxFileHotspots) : DeleteHotspot(j)
  \/ \E field \in Patches : \E value \in PatchValues(field) :
       UpdateHotspot(field, value)
  \/ \E j \in 1..(MaxHotspots + MaxFileHotspots) : FollowLink(j)
  \/ \E files \in Batches, gl \in SessionGl : ImportStart(files, gl)
  \/ \E outcome \in {"ok", "decodeError", "noContext"} : ImportDecoded(outcome)
  \/ \E ok \in BOOLEAN : ImportEncoded(ok)
  \/ \E ok \in BOOLEAN : ImportPersisted(ok)
  \/ \E file \in Docs : LoadStart(file)
  \/ LoadParsed
  \/ \E ok \in BOOLEAN : LoadRehydrated(ok)

Spec == Init /\ [][Next]_vars

\* loadProject alone, on every candidate document.
LoadFiles ==
  {[parses |-> FALSE, data |-> NoData]}
  \cup {[parses |-> TRUE, data |-> c] : c \in Candidates}

InitLoad ==
  /\ ExtInit
  /\ now = 0
  /\ project = createEmptyProject(DefaultTitle, 0)
  /\ selectedSceneId = NoId
  /\ selectedHotspotId = NoId
  /\ linkTargetSceneId = NoId
  /\ hotspotMode = "navigate"
  /\ assets = NoAssets
  /\ liveUrls = {}
  /\ importing = FALSE
  /\ idb = NoAssets
  /\ cachedSafeMaxTex = 0
  /\ currentSceneRef = NoScene
  /\ imp = ImpIdle
  /\ \E file \in LoadFiles :
       load = [pc |-> "text", parses |-> file.parses, data |-> file.data,
               idx |-> 0]
  /\ loadError = "none"

NextLoad ==
  \/ LoadParsed
  \/ \E ok \in BOOLEAN : LoadRehydrated(ok)

SpecLoad == InitLoad /\ [][NextLoad]_vars

----------------------------------------------------------------------------
\* Properties of handleImportFiles.

\* The handleImportFiles call in flight ends with this step: it returns or
\* it rejects.
BatchEnds ==
  /\ imp.pc \in {"decode", "encode", "persist"}
  /\ imp'.pc \in {"idle", "failed"}

\* The scenes of the files whose assets the batch has persisted, in file
\* order, once this step is taken.
PersistedScenes ==
  imp.newScenes \o
    (IF imp.pc = "persist" /\ imp.pending[1].id \in DOMAIN idb'
     THEN <<imp.pending[1].scene>> ELSE <<>>)

\* C1: a file that fails to decode or encode aborts only itself: a batch ends
\* only after its last file was processed, and when it ends the project has
\* gained one scene for each file that was normalized and persisted.
C1_FailureAbortsOnlyTheFile ==
  [][BatchEnds =>
       /\ imp.idx = Len(imp.files)
       /\ Scenes(project') = Scenes(project) \o PersistedScenes]_vars

\* The scenes of the project that an import of this session appended.
ImportedIndexes ==
  {i \in DOMAIN Scenes(project) : ~IsForeign(Scenes(project)[i].id)}

\* C2: every scene an import batch has appended to the project has its asset
\* in the asset store under the scene's id, the asset of the scene's file.
C2_AppendedScenesArePersisted ==
  \A i \in ImportedIndexes :
    LET scene == Scenes(project)[i]
    IN /\ scene.id \in DOMAIN idb
       /\ idb[scene.id].sceneId = scene.id
       /\ idb[scene.id].fileName = scene.panorama.fileName

\* A batch has appended a scene, and a later batch has failed.
C2_Witness ==
  /\ ImportedIndexes # {}
  /\ imp.pc = "failed"

\* C3: when a batch ends, by completing or by failing, the number of scenes
\* it appended equals the number of files whose asset it persisted.
C3_AppendedEqualsPersisted ==
  [][BatchEnds =>
       Len(Scenes(project')) - Len(Scenes(project)) = Len(PersistedScenes)]_vars

----------------------------------------------------------------------------
\* Properties of loadProject and assertIsProject.

\* The candidate is a structured record: a JSON object, not null, not a
\* number, string or boolean, not an array.
IsRecord(data) == data.kind = "object"

\* The four defects of a candidate.
Malformed(data) ==
  \/ ~IsRecord(data)
  \/ data.version # Num(1)
  \/ data.title.t # "string"
  \/ data.scenes.t # "array"

ValidationErrors ==
  {"Project is not an object", "Unsupported project version",
   "Project.title must be a string", "Project.scenes must be an array"}

LoadFailures == ValidationErrors \cup {"SyntaxError"}

\* The step of a loadProject call that parses and validates the text read.
Validates == load.pc = "text" /\ load.parses

\* C4: a parsed candidate is rejected with a validation error if and only if
\* it is no structured record, or its version is not 1, or its title is no
\* text, or its scenes is no sequence; every other candidate is accepted and
\* becomes the project as it is, whatever its hotspots link to and whether or
\* not its scenes have stored assets.
C4_RejectsExactlyTheMalformed ==
  [][Validates =>
       /\ (loadError' \in ValidationErrors) <=> Malformed(load.data)
       /\ ~Malformed(load.data) =>
            (loadError' = "none" /\ project' = load.data)]_vars

\* A document whose link hotspot targets a scene that is not in it, and whose
\* scenes have no stored asset, was accepted.
C4_Witness ==
  /\ Scenes(project) = DanglingScenes
  /\ loadError = "none"
  /\ idb = NoAssets
  /\ \E i \in DOMAIN Scenes(project) :
       \E j \in DOMAIN Scenes(project)[i].hotspots :
         /\ Scenes(project)[i].hotspots[j].type = "link"
         /\ Scenes(project)[i].hotspots[j].targetSceneId \notin SceneIds(project)

\* C5: loading a record whose version is not 1 fails with the error
\* 'Unsupported project version' and installs nothing, whatever its title and
\* scenes are; and no load fails with that error for another reason.
C5_VersionErrorIsDistinguished ==
  [][Validates =>
       /\ (IsRecord(load.data) /\ load.data.version # Num(1)) =>
            (loadError' = "Unsupported project version" /\ project' = project)
       /\ loadError' = "Unsupported project version" =>
            load.data.version # Num(1)]_vars

\* A load has failed with the version error and the project is the one the
\* editor started with.
C5_Witness ==
  /\ loadError = "Unsupported project version"
  /\ load.pc = "idle"
  /\ project = createEmptyProject(DefaultTitle, 0)

\* C6: a loadProject call that fails to parse or to validate its file changes
\* neither the project, nor the selected scene, nor the selected hotspot, nor
\* the link target, nor the asset map.
C6_FailedLoadChangesNothing ==
  [][(load.pc = "text" /\ loadError' \in LoadFailures) =>
       UNCHANGED <<project, selectedSceneId, selectedHotspotId,
                   linkTargetSceneId, assets>>]_vars

\* A load has failed while the editor held a project with an imported scene,
\* its asset and a selected hotspot.
C6_Witness ==
  /\ loadError \in LoadFailures
  /\ assets # NoAssets
  /\ selectedSceneId \in SceneIds(project)
  /\ HasSelectedHotspot

----------------------------------------------------------------------------
\* Properties of the project mutations.

\* A step of a hotspot handler that changes the project: neither a load nor
\* an import takes part in it.
HotspotMutation ==
  /\ project' # project
  /\ load' = load
  /\ imp' = imp

\* The scenes a step replaces.
ChangedScenes ==
  {i \in DOMAIN Scenes(project) : Scenes(project')[i] # Scenes(project)[i]}

\* The hotspots of scene i a step replaces, the list keeping its length.
ChangedHotspots(i) ==
  {j \in DOMAIN Scenes(project)[i].hotspots :
     Scenes(project')[i].hotspots[j] # Scenes(project)[i].hotspots[j]}

\* C7: a hotspot mutation replaces one scene only, and an update or a removal
\* one hotspot only of that scene; the other scenes and the project's version,
\* createdAt and title stay as they are.
C7_MutationReplacesOneTarget ==
  [][HotspotMutation =>
       /\ Len(Scenes(project')) = Len(Scenes(project))
       /\ Cardinality(ChangedScenes) <= 1
       /\ \A i \in ChangedScenes :
            LET before == Scenes(project)[i].hotspots
                after == Scenes(project')[i].hotspots
            IN /\ Len(after) = Len(before) =>
                    Cardinality(ChangedHotspots(i)) <= 1
               /\ (Len(after) < Len(before) /\ after # <<>>) =>
                    Len(after) = Len(before) - 1
       /\ project'.version = project.version
       /\ project'.createdAt = project.createdAt
       /\ project'.title = project.title]_vars

\* A step of the editor that mutates the project: a hotspot handler or the
\* append that ends an import. (A load installs a document; it mutates none.)
ProjectMutation ==
  /\ project' # project
  /\ load' = load

\* C8: every mutation of the project leaves it with updatedAt equal to the
\* clock reading of the mutation and with createdAt as it was.
C8_MutationStampsUpdatedAt ==
  [][ProjectMutation =>
       /\ project'.updatedAt = now
       /\ project'.createdAt = project.createdAt]_vars

\* The project was mutated after the clock had advanced past its creation.
C8_Witness ==
  /\ project.createdAt = 0
  /\ project.updatedAt = 1
  /\ \E i \in DOMAIN Scenes(project) : Scenes(project)[i].hotspots # <<>>

\* C9: no two scenes of the project have the same id.
C9_SceneIdsAreUnique ==
  \A i, j \in DOMAIN Scenes(project) :
    Scenes(project)[i].id = Scenes(project)[j].id => i = j

\* The ids of a hotspot list.
HotspotIds(hs) == {hs[j].id : j \in DOMAIN hs}

\* A step of addInfoHotspot: in Info mode, a scene's hotspot list grows.
InfoHotspotAdded ==
  /\ HotspotMutation
  /\ hotspotMode = "info"
  /\ \E i \in DOMAIN Scenes(project) :
       Len(Scenes(project')[i].hotspots) > Len(Scenes(project)[i].hotspots)

\* C10: when an info hotspot is added, its id is none of the ids of the list
\* it joins, and deleting it gives back the hotspot list of every scene as it
\* was before the add: the same entries in the same order.
C10_AddThenDeleteRestores ==
  [][InfoHotspotAdded =>
       LET undone == deletedHotspot(project', selectedScene.id,
                                    selectedHotspotId', now')
       IN \A i \in DOMAIN Scenes(project) :
            /\ Scenes(undone)[i].hotspots = Scenes(project)[i].hotspots
            /\ Scenes(project')[i].hotspots # Scenes(project)[i].hotspots =>
                 /\ selectedHotspotId' \in HotspotIds(Scenes(project')[i].hotspots)
                 /\ selectedHotspotId' \notin HotspotIds(Scenes(project)[i].hotspots)]_vars

\* An info hotspot placed in this session is selected in a scene that had
\* hotspots before it.
C10_Witness ==
  /\ HasSelectedHotspot
  /\ selectedHotspot.type = "info"
  /\ ~IsForeign(selectedHotspotId)
  /\ Len(selectedScene.hotspots) >= 2

----------------------------------------------------------------------------
\* processEquirectToSafeBlob called on its own (no forceMaxSize), and called
\* again on the blob it returned.

\* The images offered: name, pixel size.
NormFiles ==
  {[name |-> 1, width |-> w, height |-> h] :
     w \in {2, 2048, 4096, 4097, 8192, 8193, 12000}, h \in {1, 2048, 6000}}

\* The blob a call returned, read as an image file again: the file itself,
\* or the unnamed JPEG the canvas encoded.
AsFile(blob) ==
  [name |-> IF blob.src = "file" THEN blob.name ELSE 0,
   width |-> blob.width, height |-> blob.height]

\* processEquirectToSafeBlob(file) is called.
NormStart(file) ==
  /\ norm.pc = "idle"
  /\ norm' = [NormIdle EXCEPT !.pc = "decode", !.file = <<file>>, !.runs = 1]
  /\ UNCHANGED <<editorVars, saved, exp, vw, probe, fname>>

\* What decodeImageToBitmap acquires: the bitmap, and on the HTMLImageElement
\* path the object URL of the file.
acquired(path) ==
  [bitmap |-> "open", url |-> IF path = "image" THEN "live" ELSE "none"]

\* bitmap.close() and revoke?.() at the end of processEquirectToSafeBlob.
released(held) ==
  [bitmap |-> "closed", url |-> IF held.url = "live" THEN "revoked" ELSE held.url]

\* The decode ends, by createImageBitmap(file) (path "bitmap") or by the
\* HTMLImageElement fallback (path "image"), which alone can fail; on success
\* the safe maximum is asked for, and the image is kept as it is, or drawn on a
\* canvas and sent to the encoder.
NormDecoded(outcome, gl, path) ==
  /\ norm.pc = "decode"
  /\ outcome \in {"ok", "decodeError", "noContext"}
  /\ outcome = "decodeError" => path = "image"
  /\ LET file == norm.file[1]
         safeMax == getSafeMaxTextureSize(cachedSafeMaxTex, gl)
     IN IF outcome = "decodeError"
        THEN /\ norm' = [norm EXCEPT !.pc = "failed",
                           !.held = [bitmap |-> "none", url |-> "live"]]
             /\ UNCHANGED <<cachedSafeMaxTex, probe>>
        ELSE /\ cachedSafeMaxTex' = safeMax
             /\ probe' = probeAfterCall(probe, cachedSafeMaxTex, gl)
             /\ norm' =
                  IF KeepsOriginal(file, safeMax)
                  THEN [norm EXCEPT !.pc = "done", !.safeMax = safeMax,
                          !.res = <<processEquirectToSafeBlob(file, safeMax)>>,
                          !.held = released(acquired(path))]
                  ELSE IF outcome = "noContext"
                  THEN [norm EXCEPT !.pc = "failed", !.safeMax = safeMax,
                          !.held = acquired(path)]
                  ELSE [norm EXCEPT !.pc = "encode", !.safeMax = safeMax,
                          !.held = acquired(path)]
  /\ UNCHANGED <<now, project, selectedSceneId, selectedHotspotId,
                 linkTargetSceneId, hotspotMode, assets, liveUrls, importing,
                 idb, currentSceneRef, imp, load, loadError, saved, exp, vw,
                 fname>>

\* canvas.toBlob calls back, with a blob or with null.
NormEncoded(ok) ==
  /\ norm.pc = "encode"
  /\ norm' =
       IF ok
       THEN [norm EXCEPT !.pc = "done",
               !.res = <<processEquirectToSafeBlob(norm.file[1], norm.safeMax)>>,
               !.held = released(@)]
       ELSE [norm EXCEPT !.pc = "failed"]
  /\ UNCHANGED <<editorVars, saved, exp, vw, probe, fname>>

\* The blob returned is handed to processEquirectToSafeBlob again.
NormAgain ==
  /\ norm.pc = "done"
  /\ norm.runs = 1
  /\ norm' = [norm EXCEPT !.pc = "decode", !.file = <<AsFile(norm.res[1].blob)>>,
                !.first = norm.res, !.res = <<>>, !.runs = 2,
                !.held = NoHeld]
  /\ UNCHANGED <<editorVars, saved, exp, vw, probe, fname>>

\* Some other code of the process calls getSafeMaxTextureSize().
MaxCalls == 2
ProbeCall(gl) ==
  /\ probe.calls < MaxCalls
  /\ cachedSafeMaxTex' = getSafeMaxTextureSize(cachedSafeMaxTex, gl)
  /\ probe' = probeAfterCall(probe, cachedSafeMaxTex, gl)
  /\ UNCHANGED <<now, project, selectedSceneId, selectedHotspotId,
                 linkTargetSceneId, hotspotMode, assets, liveUrls, importing,
                 idb, currentSceneRef, imp, load, loadError, saved, exp, vw,
                 norm, fname>>

NextNormalize ==
  \/ \E file \in NormFiles : NormStart(file)
  \/ \E outcome \in {"ok", "decodeError", "noContext"}, gl \in GlOutcomes :
       \E path \in {"bitmap", "image"} : NormDecoded(outcome, gl, path)
  \/ \E ok \in BOOLEAN : NormEncoded(ok)
  \/ NormAgain
  \/ \E gl \in GlOutcomes : ProbeCall(gl)

SpecNormalize == Init /\ [][NextNormalize]_vars

\* The longer edge of the image of the call is at or under the safe maximum.
WithinSafeMax ==
  Max2(norm.file[1].width, norm.file[1].height) <= norm.safeMax

----------------------------------------------------------------------------
\* saveProject, and the editor saving and loading project files.

\* The Save project button: the project is serialized and downloaded.
SaveProject ==
  /\ ~importing
  /\ saved' = <<JSONstringify(project)>>
  /\ UNCHANGED <<editorVars, exp, vw, norm, probe, fname>>

NextSave ==
  \/ Tick
  \/ \E file \in SaveDocs \cup SavedFiles : LoadStart(file)
  \/ LoadParsed
  \/ \E ok \in BOOLEAN : LoadRehydrated(ok)
  \/ \E j \in 1..(MaxHotspots + MaxFileHotspots) : SelectHotspot(j)
  \/ \E field \in Patches : \E value \in PatchValues(field) :
       UpdateHotspot(field, value)
  \/ SaveProject

SpecSave == Init /\ [][NextSave]_vars

\* p and q are equal in every field but possibly updatedAt.
SameDocument(p, q) ==
  /\ p.version = q.version
  /\ p.createdAt = q.createdAt
  /\ p.title = q.title
  /\ p.scenes = q.scenes

\* The step of saveProject.
Saves == saved' # saved

\* The step of a loadProject call that parses and validates a file that
\* saveProject wrote.
LoadsSaved ==
  /\ load.pc = "text"
  /\ load'.pc # "text"
  /\ [parses |-> load.parses, data |-> load.data] \in SavedFiles

\* C11: the file saveProject writes parses to a document equal to the project
\* saved in version, createdAt, title, scenes and hotspots, in the same order;
\* and loading a saved file passes validation and installs that document.
C11_SaveThenLoadRestores ==
  [][/\ Saves =>
          /\ assertIsProject(JSONparse(saved'[1])) = "ok"
          /\ SameDocument(JSONparse(saved'[1]), project)
     /\ LoadsSaved =>
          /\ loadError' = "none"
          /\ SameDocument(project', JSONparse(saved[1]))]_vars

\* A saved file is being loaded after the project was edited: the document
\* installed is the saved one, edited hotspots included.
C11_Witness ==
  /\ saved # NoSaved
  /\ load.pc = "rehydrate"
  /\ SameDocument(project, JSONparse(saved[1]))
  /\ project.updatedAt < now
  /\ \E i \in DOMAIN Scenes(project) :
       \E j \in DOMAIN Scenes(project)[i].hotspots :
         Scenes(project)[i].hotspots[j].title = EditedText

----------------------------------------------------------------------------
\* exportViewer (src/src/lib/exportViewer.ts). A text is a sequence of tokens:
\* a token is a run of characters of [a-zA-Z0-9.-], one underscore, or one
\* character outside [a-zA-Z0-9._-].

UnsafeTokens == {" ", "/"}

\* Scene ids of project files written elsewhere: 'a b' and 'a/b'.
IdSpace == <<"scene", 106, 0>>
IdSlash == <<"scene", 107, 0>>

\* The characters of an id: prefix_random_time for the ids uid builds.
IdText(id) ==
  IF id = IdSpace THEN <<"a", " ", "b">>
  ELSE IF id = IdSlash THEN <<"a", "/", "b">>
  ELSE <<id[1], "_", ToString(id[2]), "_", ToString(id[3])>>

Max(S) == CHOOSE x \in S : \A y \in S : y <= x

\* name.replace(/[^a-zA-Z0-9._-]/g, '_'): the pattern without the +.
ReplaceUnsafeEach(name) ==
  [i \in DOMAIN name |-> IF name[i] \in UnsafeTokens THEN "_" ELSE name[i]]

\* name.replace(/[^a-zA-Z0-9._-]+/g, '_')
ReplaceUnsafe(name) ==
  LET Kept(i) == \/ name[i] \notin UnsafeTokens
                 \/ i = 1
                 \/ name[i - 1] \notin UnsafeTokens
      idx == SelectSeq([i \in 1..Len(name) |-> i], Kept)
  IN [k \in DOMAIN idx |->
        IF name[idx[k]] \in UnsafeTokens THEN "_" ELSE name[idx[k]]]

\* .replace(/^_+|_+$/g, '')
StripUnderscores(name) ==
  LET rest == {i \in DOMAIN name : name[i] # "_"}
  IN IF rest = {} THEN <<>> ELSE SubSeq(name, Min(rest), Max(rest))

safeFileName(name) ==
  LET r == StripUnderscores(ReplaceUnsafe(name))
  IN IF r = <<>> THEN <<"file">> ELSE r

\* collectAssetsForExport: one ExportAsset per scene whose id has a stored
\* blob in the asset map, in scene order.
collectAssetsForExport(p, as) ==
  LET scs == Scenes(p)
      Stored(i) == scs[i].id \in DOMAIN as
      idx == SelectSeq([i \in 1..Len(scs) |-> i], Stored)
  IN [k \in DOMAIN idx |->
        [sceneId |-> scs[idx[k]].id,
         blob |-> as[scs[idx[k]].id].blob,
         fileName |-> safeFileName(IdText(scs[idx[k]].id) \o <<".jpg">>)]]

\* The six writeFile calls into the export folder, with the usage note left
\* out.
RootFilesNoReadme ==
  <<"index.html", "style.css", "marzipano.js", "project.js", "viewer.js">>

\* The six writeFile calls into the export folder.
RootFiles ==
  <<"index.html", "style.css", "marzipano.js", "project.js", "viewer.js",
    "README.txt">>

\* blobToDataUrl: the data: URL of a blob.
blobToDataUrl(blob) == [scheme |-> "data", blob |-> blob]

\* embeddedAssets after the loop over exportAssets: a later entry of the same
\* scene id replaces an earlier one.
embeddedAssets(exportAssets) ==
  [id \in {exportAssets[i].sceneId : i \in DOMAIN exportAssets} |->
     blobToDataUrl(
       exportAssets[Max({i \in DOMAIN exportAssets :
                           exportAssets[i].sceneId = id})].blob)]

\* buildStandaloneHtml: the page carries window.ORBITRY_PROJECT and
\* window.ORBITRY_ASSETS.
NoPage == [project |-> <<>>, assets |-> NoAssets, built |-> FALSE]
buildStandaloneHtml(p, embedded) ==
  [project |-> JSONstringify(p), assets |-> embedded, built |-> TRUE]

\* safeFileName(`${project.title || 'orbitry'}_viewer.html`)
downloadName(p) ==
  safeFileName((IF p.title.n = 0 THEN <<"orbitry">>
                ELSE <<"title", ToString(p.title.n)>>)
               \o <<"_", "viewer.html">>)

\* An exportViewer call: pc is its position, cap whether the host has
\* showDirectoryPicker, root the names written into the export folder,
\* projectJs the text of project.js, assetsDir the files of assets/,
\* standalone the page written or downloaded, downloads the names downloaded;
\* project and assets are the arguments of the call.
ExpStart(p, as, cap) ==
  [pc |-> IF cap THEN "picker" ELSE "embed", cap |-> cap, project |-> p,
   assets |-> as, exportAssets |-> collectAssetsForExport(p, as), idx |-> 0,
   root |-> {},
   projectJs |-> <<>>, assetsDir |-> NoAssets, standalone |-> NoPage,
   downloads |-> <<>>, mode |-> "none"]

\* Projects that pass assertIsProject: two scenes linked to each other, two
\* scenes of one id, two scenes whose ids are not file names.
ExportScenes ==
  { << FileScene(IdA, <<LinkHotspot(IdH, 0, 0, IdB)>>), FileScene(IdB, <<>>) >>,
    SessionScenes,
    << FileScene(IdSpace, <<>>), FileScene(IdSlash, <<>>) >> }

ExportProjects ==
  { [createEmptyProject(t, 0) EXCEPT !.scenes = Arr(scs)] :
      t \in {Str(0), Str(1)}, scs \in ExportScenes }

\* The asset maps for a project: a StoredAsset for some of its scene ids.
ExportBlob(id) == [src |-> "file", name |-> id[2], width |-> 4000, height |-> 2000]
AssetMaps(p) ==
  { [id \in K |->
       StoredOf(id, [blob |-> ExportBlob(id), width |-> 4000, height |-> 2000,
                     originalWidth |-> 4000, originalHeight |-> 2000,
                     fileName |-> 1], 0)] : K \in SUBSET SceneIds(p) }

\* exportViewer(project, assets) is called.
ExportViewer(p, as, cap) ==
  /\ exp.pc \in {"idle", "done", "failed"}
  /\ assertIsProject([kind |-> "object", truthy |-> TRUE, version |-> p.version,
                      createdAt |-> p.createdAt, updatedAt |-> p.updatedAt,
                      title |-> p.title, scenes |-> p.scenes]) = "ok"
  /\ exp' = ExpStart(p, as, cap)
  /\ UNCHANGED <<editorVars, saved, vw, norm, probe, fname>>

\* showDirectoryPicker and getDirectoryHandle settle: the user picks a folder,
\* or dismisses the picker and the call rejects.
ExportPicked(ok) ==
  /\ exp.pc = "picker"
  /\ exp' = [exp EXCEPT !.pc = IF ok THEN "write" ELSE "failed", !.idx = 1]
  /\ UNCHANGED <<editorVars, saved, vw, norm, probe, fname>>

\* One writeFile call settles: the next root file, then the next asset.
ExportWrote(ok) ==
  /\ exp.pc = "write"
  /\ LET n == Len(RootFiles)
         last == n + Len(exp.exportAssets)
         a == exp.exportAssets[exp.idx - n]
     IN IF ~ok
        THEN exp' = [exp EXCEPT !.pc = "failed"]
        ELSE exp' =
               [exp EXCEPT
                  !.root = IF exp.idx <= n THEN @ \cup {RootFiles[exp.idx]}
                           ELSE @,
                  !.projectJs =
                     IF exp.idx <= n /\ RootFiles[exp.idx] = "project.js"
                     THEN JSONstringify(exp.project) ELSE @,
                  !.assetsDir =
                     IF exp.idx > n
                     THEN [f \in DOMAIN @ \cup {a.fileName} |->
                             IF f = a.fileName THEN a.blob ELSE @[f]]
                     ELSE @,
                  !.idx = @ + 1,
                  !.pc = IF exp.idx = last THEN "embed" ELSE "write"]
  /\ UNCHANGED <<editorVars, saved, vw, norm, probe, fname>>

\* The blobToDataUrl calls settle and the self-contained page is built; without
\* the picker the page is downloaded and the call returns.
ExportEmbedded(ok) ==
  /\ exp.pc = "embed"
  /\ ok \/ exp.exportAssets # <<>>
  /\ LET page == buildStandaloneHtml(exp.project,
                                     embeddedAssets(exp.exportAssets))
     IN IF ~ok
        THEN exp' = [exp EXCEPT !.pc = "failed"]
        ELSE IF exp.cap
        THEN exp' = [exp EXCEPT !.pc = "standalone", !.standalone = page]
        ELSE exp' = [exp EXCEPT !.pc = "done", !.standalone = page,
                                !.downloads = Append(@, downloadName(exp.project)),
                                !.mode = "single-html"]
  /\ UNCHANGED <<editorVars, saved, vw, norm, probe, fname>>

\* writeFile(outDir, 'viewer_standalone.html', standalone) settles.
ExportStandaloneWrote(ok) ==
  /\ exp.pc = "standalone"
  /\ exp' = IF ok
            THEN [exp EXCEPT !.pc = "done", !.mode = "folder",
                             !.root = @ \cup {"viewer_standalone.html"}]
            ELSE [exp EXCEPT !.pc = "failed"]
  /\ UNCHANGED <<editorVars, saved, vw, norm, probe, fname>>

NextExport ==
  \/ \E p \in ExportProjects : \E as \in AssetMaps(p) : \E cap \in BOOLEAN :
       ExportViewer(p, as, cap)
  \/ \E ok \in BOOLEAN : ExportPicked(ok)
  \/ \E ok \in BOOLEAN : ExportWrote(ok)
  \/ \E ok \in BOOLEAN : ExportEmbedded(ok)
  \/ \E ok \in BOOLEAN : ExportStandaloneWrote(ok)

SpecExport == Init /\ [][NextExport]_vars

\* 'assets/' + s.id + '.jpg': the URL loadScene of viewer.js fetches.
dirImgUrl(id) == <<"assets", "/">> \o IdText(id) \o <<".jpg">>

\* The path of an export asset's file, relative to the export folder.
writtenPath(a) == <<"assets", "/">> \o a.fileName

\* exportViewer returned { ok: true, mode: 'folder' }.
FolderExported == exp.pc = "done" /\ exp.mode = "folder"

\* The scenes of the exported project that have a stored asset.
ScenesWithAsset ==
  {i \in DOMAIN Scenes(exp.project) :
     Scenes(exp.project)[i].id \in DOMAIN exp.assets}

\* C12: after a successful directory export assets/ holds as many files as the
\* project has scenes with a stored asset, and project.js lists one entry per
\* scene, no two with the same id.
C12_OneFilePerStoredScene ==
  FolderExported =>
    LET entries == Get(exp.projectJs, "scenes", <<>>)
    IN /\ Cardinality(DOMAIN exp.assetsDir) = Cardinality(ScenesWithAsset)
       /\ Len(entries) = Len(Scenes(exp.project))
       /\ \A i, j \in DOMAIN entries :
            parseScene(entries[i]).id = parseScene(entries[j]).id => i = j

\* C13: the mode of a finished export is decided by the host capability; a
\* directory export has written exactly the six viewer files, the files of
\* the export assets and viewer_standalone.html, and has downloaded nothing;
\* without the capability nothing is ever written, a finished export has
\* downloaded exactly the one self-contained page, and the call fails only
\* when a blob cannot be read.
C13_ModeFollowsCapability ==
  /\ exp.pc = "done" =>
       /\ exp.mode = IF exp.cap THEN "folder" ELSE "single-html"
       /\ exp.standalone =
            buildStandaloneHtml(exp.project, embeddedAssets(exp.exportAssets))
       /\ exp.cap =>
            /\ exp.root = {"index.html", "style.css", "marzipano.js",
                           "project.js", "viewer.js", "README.txt",
                           "viewer_standalone.html"}
            /\ DOMAIN exp.assetsDir =
                 {exp.exportAssets[i].fileName : i \in DOMAIN exp.exportAssets}
            /\ exp.downloads = <<>>
       /\ ~exp.cap => exp.downloads = <<downloadName(exp.project)>>
  /\ exp.pc # "idle" /\ ~exp.cap =>
       /\ exp.root = {}
       /\ DOMAIN exp.assetsDir = {}
       /\ exp.pc = "failed" => exp.exportAssets # <<>>

\* A host without showDirectoryPicker has exported a project with stored
\* assets: the page was downloaded.
C13_Witness ==
  /\ exp.pc = "done"
  /\ ~exp.cap
  /\ exp.exportAssets # <<>>
  /\ Len(exp.downloads) = 1

----------------------------------------------------------------------------
\* The exported viewer: viewer.js of the directory bundle (dir, exportViewer.ts
\* 84-191) and the script of the self-contained page (sa, 267-340), opened on
\* the same export and given the same user events.

\* The text 'Info' shown for a hotspot without a title.
InfoLabel == 8

\* window.ORBITRY_PROJECT.scenes, as the browser parses the exported text.
ViewerScenes(text) ==
  LET scs == Get(text, "scenes", <<>>)
  IN [i \in DOMAIN scs |-> parseScene(scs[i])]

\* sceneMap[id]: the forEach assigns in scene order, so the last scene of an
\* id is the one kept; 0 = undefined.
sceneMap(scs, id) ==
  IF \E i \in DOMAIN scs : scs[i].id = id
  THEN Max({i \in DOMAIN scs : scs[i].id = id})
  ELSE 0

\* A viewer before its first loadScene: no scene, the first option selected,
\* the panel hidden, no hotspot elements.
NoImage == [kind |-> "none", src |-> <<>>]
ViewerStart ==
  [active |-> 0, selected |-> 1, img |-> NoImage, shown |-> <<>>,
   panel |-> [show |-> FALSE, title |-> 0, text |-> 0]]

\* The hotspot elements loadScene creates for scene i.
HotspotEls(scs, i) ==
  [k \in DOMAIN scs[i].hotspots |-> [scene |-> i, h |-> scs[i].hotspots[k]]]

\* sceneSelect.value = s.id selects the first option of that value.
OptionOf(scs, id) == Min({j \in DOMAIN scs : scs[j].id = id})

\* loadScene of viewer.js.
dirLoadScene(scs, v, sceneId) ==
  LET i == sceneMap(scs, sceneId)
  IN IF i = 0 THEN v
     ELSE [v EXCEPT !.panel.show = FALSE,
                    !.img = [kind |-> "url", src |-> dirImgUrl(scs[i].id)],
                    !.active = i,
                    !.selected = OptionOf(scs, scs[i].id),
                    !.shown = HotspotEls(scs, i)]

\* showInfo of viewer.js.
dirShowInfo(v, h) ==
  [v EXCEPT !.panel =
     [show |-> TRUE,
      title |-> IF h.title \in {-1, 0} THEN InfoLabel ELSE h.title,
      text |-> IF h.text = -1 THEN 0 ELSE h.text]]

\* The click listener makeHotspotEl of viewer.js attaches.
dirClick(scs, v, h) ==
  IF h.type = "link"
  THEN IF h.targetSceneId # NoId THEN dirLoadScene(scs, v, h.targetSceneId)
       ELSE v
  ELSE dirShowInfo(v, h)

\* The image source of the self-contained page: assets[s.id].
saImage(as, id) ==
  IF id \in DOMAIN as THEN [kind |-> "data", src |-> as[id]]
  ELSE [kind |-> "undefined", src |-> <<>>]

\* loadScene of the self-contained page, leaving the panel as it is.
saLoadSceneKeepsPanel(scs, as, v, sceneId) ==
  LET i == sceneMap(scs, sceneId)
  IN IF i = 0 THEN v
     ELSE [v EXCEPT !.img = saImage(as, scs[i].id),
                    !.active = i,
                    !.selected = OptionOf(scs, scs[i].id),
                    !.shown = HotspotEls(scs, i)]

\* loadScene of the self-contained page.
saLoadScene(scs, as, v, sceneId) ==
  LET i == sceneMap(scs, sceneId)
  IN IF i = 0 THEN v
     ELSE [v EXCEPT !.panel.show = FALSE,
                    !.img = saImage(as, scs[i].id),
                    !.active = i,
                    !.selected = OptionOf(scs, scs[i].id),
                    !.shown = HotspotEls(scs, i)]

\* showInfo of the self-contained page, showing the title as it is.
saShowInfoRaw(v, h) ==
  [v EXCEPT !.panel =
     [show |-> TRUE,
      title |-> IF h.title = -1 THEN 0 ELSE h.title,
      text |-> IF h.text = -1 THEN 0 ELSE h.text]]

\* showInfo of the self-contained page.
saShowInfo(v, h) ==
  [v EXCEPT !.panel =
     [show |-> TRUE,
      title |-> IF h.title \in {-1, 0} THEN InfoLabel ELSE h.title,
      text |-> IF h.text = -1 THEN 0 ELSE h.text]]

\* The click listener makeHotspotEl of the self-contained page attaches.
saClick(scs, as, v, h) ==
  IF h.type = "link"
  THEN IF h.targetSceneId # NoId THEN saLoadScene(scs, as, v, h.targetSceneId)
       ELSE v
  ELSE saShowInfo(v, h)

\* The last user event: its kind and the hotspot clicked, if any.
NoHotspot == InfoHotspot(NoId, 0, 0, 0)
ViewerEvent(ev, h) == [ev |-> ev, h |-> h]

\* Exported projects: two scenes linked to each other, the first with two info
\* hotspots; a scene with a link to a scene that is not in the project; two
\* scenes of one id.
ViewerSceneLists ==
  { << FileScene(IdC, << InfoHotspot(IdH1, 0, 0, 1),
                         [InfoHotspot(IdH2, 0, 0, 1) EXCEPT !.title = -1,
                                                            !.text = -1],
                         LinkHotspot(IdH3, 0, 0, IdD) >>),
       FileScene(IdD, << LinkHotspot(IdH, 0, 0, IdC) >>) >>,
    << FileScene(IdA, << [InfoHotspot(IdH1, 0, 0, 0) EXCEPT !.text = EditedText],
                         LinkHotspot(IdH, 0, 0, IdMissing) >>),
       FileScene(IdB, <<>>) >>,
    SessionScenes }

ViewerProjects ==
  { [createEmptyProject(Str(1), 0) EXCEPT !.scenes = Arr(scs)] :
      scs \in ViewerSceneLists \cup {<<>>} }

\* The pages of an export of p with the asset map as are opened.
ViewerOpen(p, as) ==
  /\ vw.pc = "closed"
  /\ LET scs == ViewerScenes(JSONstringify(p))
         embedded == embeddedAssets(collectAssetsForExport(p, as))
     IN vw' = IF scs = <<>>
              THEN [pc |-> "empty", scenes |-> scs, assets |-> embedded,
                    dir |-> ViewerStart, sa |-> ViewerStart,
                    last |-> ViewerEvent("open", NoHotspot)]
              ELSE [pc |-> "open", scenes |-> scs, assets |-> embedded,
                    dir |-> dirLoadScene(scs, ViewerStart, scs[1].id),
                    sa |-> saLoadScene(scs, embedded, ViewerStart, scs[1].id),
                    last |-> ViewerEvent("open", NoHotspot)]
  /\ UNCHANGED <<editorVars, saved, exp, norm, probe, fname>>

\* The user picks option i of the scene selector: a change event.
ViewerSelect(i) ==
  /\ vw.pc = "open"
  /\ i \in DOMAIN vw.scenes
  /\ i # vw.dir.selected \/ i # vw.sa.selected
  /\ vw' = [vw EXCEPT
              !.dir = IF i # vw.dir.selected
                      THEN dirLoadScene(vw.scenes, [@ EXCEPT !.selected = i],
                                        vw.scenes[i].id)
                      ELSE @,
              !.sa = IF i # vw.sa.selected
                     THEN saLoadScene(vw.scenes, vw.assets,
                                      [@ EXCEPT !.selected = i],
                                      vw.scenes[i].id)
                     ELSE @,
              !.last = ViewerEvent("select", NoHotspot)]
  /\ UNCHANGED <<editorVars, saved, exp, norm, probe, fname>>

\* The user clicks the hotspot element of hotspot k of scene i, in each page
\* that displays it.
ViewerClick(i, k) ==
  /\ vw.pc = "open"
  /\ LET el == [scene |-> i, h |-> vw.scenes[i].hotspots[k]]
         InDir == \E n \in DOMAIN vw.dir.shown : vw.dir.shown[n] = el
         InSa == \E n \in DOMAIN vw.sa.shown : vw.sa.shown[n] = el
     IN /\ i \in DOMAIN vw.scenes
        /\ k \in DOMAIN vw.scenes[i].hotspots
        /\ InDir \/ InSa
        /\ vw' = [vw EXCEPT
                    !.dir = IF InDir THEN dirClick(vw.scenes, @, el.h) ELSE @,
                    !.sa = IF InSa THEN saClick(vw.scenes, vw.assets, @, el.h)
                           ELSE @,
                    !.last = ViewerEvent(el.h.type, el.h)]
  /\ UNCHANGED <<editorVars, saved, exp, norm, probe, fname>>

\* The user clicks the close button of the info panel.
ViewerClosePanel ==
  /\ vw.pc = "open"
  /\ vw.dir.panel.show \/ vw.sa.panel.show
  /\ vw' = [vw EXCEPT !.dir.panel.show = FALSE, !.sa.panel.show = FALSE,
                      !.last = ViewerEvent("close", NoHotspot)]
  /\ UNCHANGED <<editorVars, saved, exp, norm, probe, fname>>

\* The pages are closed.
ViewerShut ==
  /\ vw.pc # "closed"
  /\ vw' = VwClosed
  /\ UNCHANGED <<editorVars, saved, exp, norm, probe, fname>>

MaxViewerHotspots == 3

NextViewer ==
  \/ \E p \in ViewerProjects : \E as \in AssetMaps(p) : ViewerOpen(p, as)
  \/ \E i \in 1..MaxScenes : ViewerSelect(i)
  \/ \E i \in 1..MaxScenes : \E k \in 1..MaxViewerHotspots : ViewerClick(i, k)
  \/ ViewerClosePanel
  \/ ViewerShut

SpecViewer == Init /\ [][NextViewer]_vars

\* C14: whenever the self-contained page has an active scene, the image source
\* it handed to the renderer is a data: URL.
C14_ImageSourceIsDataUri ==
  vw.pc = "open" /\ vw.sa.active # 0 => vw.sa.img.kind = "data"

\* The hotspot elements on display are those of the active scene, one per
\* hotspot and in order.
ShowsActiveScene(v) == v.active # 0 /\ v.shown = HotspotEls(vw.scenes, v.active)

\* C16: in both pages the first scene of the project is the active one after
\* load, and the hotspot elements on display are always exactly those of the
\* active scene.
C16_FirstSceneThenOwnHotspots ==
  vw.pc = "open" =>
    /\ vw.last.ev = "open" => vw.dir.active = 1 /\ vw.sa.active = 1
    /\ ShowsActiveScene(vw.dir)
    /\ ShowsActiveScene(vw.sa)

\* The active scene is the one the id names, and the info panel is hidden.
ShowsTarget(v, id) ==
  /\ v.active # 0
  /\ vw.scenes[v.active].id = id
  /\ ~v.panel.show

\* C17: after a click on a link hotspot, in both pages the active scene is the
\* one its targetSceneId names and the info panel is hidden.
C17_LinkSwitchesAndClosesPanel ==
  vw.pc = "open" /\ vw.last.ev = "link" =>
    /\ ShowsTarget(vw.dir, vw.last.h.targetSceneId)
    /\ ShowsTarget(vw.sa, vw.last.h.targetSceneId)

\* A step in which an info hotspot is clicked.
InfoClicked == vw.pc = "open" /\ vw'.pc = "open" /\ vw'.last.ev = "info"

\* The text of a title or text property; '' when the hotspot has none.
OwnText(n) == IF n = -1 THEN 0 ELSE n

\* The page state w is v with the panel shown, holding the title and text.
PanelOpened(v, w, title, text) ==
  w = [v EXCEPT !.panel = [show |-> TRUE, title |-> title, text |-> text]]

\* C18 as stated: a click on an info hotspot shows the panel with the
\* hotspot's own title and text and changes nothing else, in both pages.
C18_InfoShowsOwnTitle ==
  [][InfoClicked =>
       LET h == vw'.last.h
       IN /\ PanelOpened(vw.dir, vw'.dir, OwnText(h.title), OwnText(h.text))
          /\ PanelOpened(vw.sa, vw'.sa, OwnText(h.title), OwnText(h.text))]_vars

\* The title the panel shows: the hotspot's own, or 'Info' when that is empty
\* or absent.
TitleOrLabel(h) == IF OwnText(h.title) = 0 THEN InfoLabel ELSE h.title

\* C18 amended: a click on an info hotspot shows the panel with the hotspot's
\* own text and its own title, or 'Info' when the title is empty or absent,
\* and changes nothing else: active scene, image, selector and displayed
\* hotspot elements stay as they were, in both pages.
C18_InfoShowsTitleOrLabel ==
  [][InfoClicked =>
       LET h == vw'.last.h
       IN /\ PanelOpened(vw.dir, vw'.dir, TitleOrLabel(h), OwnText(h.text))
          /\ PanelOpened(vw.sa, vw'.sa, TitleOrLabel(h), OwnText(h.text))]_vars

\* An info hotspot without a title was clicked: the panel shows 'Info'.
C18_Witness ==
  /\ vw.pc = "open"
  /\ vw.last.ev = "info"
  /\ OwnText(vw.last.h.title) = 0
  /\ vw.dir.panel = [show |-> TRUE, title |-> InfoLabel,
                     text |-> OwnText(vw.last.h.text)]
  /\ vw.sa.panel = vw.dir.panel

\* C19: the two pages, opened on the same export and given the same events,
\* agree on the active scene, the selector, the info panel and the displayed
\* hotspot elements after every event.
C19_SameStateMachine ==
  vw.pc = "open" =>
    /\ vw.dir.active = vw.sa.active
    /\ vw.dir.selected = vw.sa.selected
    /\ vw.dir.panel = vw.sa.panel
    /\ vw.dir.shown = vw.sa.shown

\* Both pages followed a link to the second scene from a scene whose info
\* panel had been opened, and hid the panel.
C19_Witness ==
  /\ vw.pc = "open"
  /\ vw.last.ev = "link"
  /\ vw.dir.active = 2
  /\ vw.sa.active = 2
  /\ vw.dir.panel.title # 0
  /\ ~vw.dir.panel.show
  /\ ~vw.sa.panel.show

----------------------------------------------------------------------------
\* Downscaling, the capability probe and the release of decode resources.

\* processEquirectToSafeBlob returned for an image whose longer edge exceeds
\* the safe maximum.
Downscaled == norm.pc = "done" /\ ~WithinSafeMax

\* n is a / b rounded to the nearest integer.
NearestTo(n, a, b) == 2 * b * n - b <= 2 * a /\ 2 * a <= 2 * b * n + b

\* C21: for an image whose longer edge exceeds the safe maximum, the longer
\* edge of the result is the safe maximum, no dimension exceeds the original
\* one, and each is the original one times safeMax over the longer edge,
\* rounded to the nearest integer; 12000x6000 at 8192 gives 8192x4096.
C21_DownscaleFitsSafeMax ==
  Downscaled =>
    LET file == norm.file[1]
        res == norm.res[1]
        longer == Max2(file.width, file.height)
    IN /\ Max2(res.width, res.height) = norm.safeMax
       /\ res.width <= file.width
       /\ res.height <= file.height
       /\ NearestTo(res.width, file.width * norm.safeMax, longer)
       /\ NearestTo(res.height, file.height * norm.safeMax, longer)
       /\ res.originalWidth = file.width
       /\ res.originalHeight = file.height
       /\ (file.width = 12000 /\ file.height = 6000 /\ norm.safeMax = 8192) =>
            res.width = 8192 /\ res.height = 4096

\* A 12000x6000 image was scaled on a host whose safe maximum is 8192.
C21_Witness ==
  /\ Downscaled
  /\ norm.file[1].width = 12000
  /\ norm.file[1].height = 6000
  /\ norm.safeMax = 8192
  /\ norm.res[1].width = 8192
  /\ norm.res[1].blob.src = "canvas"

\* The value the spec gives for a surface that reports gl when first asked.
ClampedFirst(gl) ==
  IF gl \in {GlThrows, GlNone, 0} THEN 4096
  ELSE IF gl < 2048 THEN 2048
  ELSE IF gl > 8192 THEN 8192
  ELSE gl

\* C22: over the calls of getSafeMaxTextureSize in one process the surface is
\* asked at most once, and every call returns the same value: what the surface
\* reported when first asked, clamped to 2048..8192, or 4096 when it could not
\* be asked; that value is the one cached.
C22_ProbedOnceAndCached ==
  /\ probe.queries <= 1
  /\ probe.calls > 0 =>
       /\ probe.queries = 1
       /\ probe.returned = {ClampedFirst(probe.first)}
       /\ cachedSafeMaxTex = ClampedFirst(probe.first)

\* A later call found a surface that reports 16384 after a first call had
\* found one that reports 1024: both returned 2048.
C22_Witness ==
  /\ probe.calls >= 2
  /\ probe.first = 1024
  /\ probe.last = 16384
  /\ probe.returned = {2048}

\* C23: when processEquirectToSafeBlob has returned or failed, the bitmap it
\* decoded is closed and the object URL the decode created is revoked.
C23_DecodeResourcesReleased ==
  norm.pc \in {"done", "failed"} =>
    /\ norm.held.bitmap # "open"
    /\ norm.held.url # "live"

----------------------------------------------------------------------------
\* The asset map and its object URLs: imports, saves, and loads of the saved
\* files, whose scenes are found in IndexedDB and installed again.

\* The asset store holds at most MaxScenes assets: imports stop at the cap.
StoreHasRoom(files) == Cardinality(DOMAIN idb) + Len(files) <= MaxScenes

\* Files are loaded while fewer than MaxUrls object URLs have been created.
MaxUrls == 5
UrlsLeft == \A u \in liveUrls : u < MaxUrls

NextAssets ==
  \/ \E i \in 1..MaxScenes : SelectScene(i)
  \/ \E m \in {"navigate", "link"} : SetHotspotMode(m)
  \/ \E yaw \in Angles, pitch \in Angles : AddLinkHotspot(yaw, pitch)
  \/ \E files \in Batches, gl \in SessionGl :
       StoreHasRoom(files) /\ ImportStart(files, gl)
  \/ \E outcome \in {"ok", "decodeError", "noContext"} : ImportDecoded(outcome)
  \/ \E ok \in BOOLEAN : ImportEncoded(ok)
  \/ \E ok \in BOOLEAN : ImportPersisted(ok)
  \/ SaveProject
  \/ \E file \in SavedFiles : UrlsLeft /\ LoadStart(file)
  \/ LoadParsed
  \/ \E ok \in BOOLEAN : LoadRehydrated(ok)

SpecAssets == Init /\ [][NextAssets]_vars

\* The object URLs the asset map refers to.
MapUrls == {assets[k].url : k \in DOMAIN assets}

\* C24: the object URL of every entry of the asset map is live, the live
\* object URLs are exactly those of the map (the URL of a replaced asset has
\* been revoked), and no two scene ids share one.
C24_OneLiveUrlPerAsset ==
  /\ \A k \in DOMAIN assets : assets[k].url \in liveUrls
  /\ liveUrls = MapUrls
  /\ \A k1, k2 \in DOMAIN assets :
       assets[k1].url = assets[k2].url => k1 = k2
  /\ \A k \in DOMAIN assets : assets[k].asset.sceneId = k

\* Both scenes of the project were installed at import (URLs 0 and 1) and
\* again when the saved file was loaded (URLs 2 and 3): the first two URLs
\* are revoked.
C24_Witness ==
  /\ Cardinality(DOMAIN assets) = 2
  /\ load.pc = "idle"
  /\ loadError = "none"
  /\ liveUrls = {2, 3}

----------------------------------------------------------------------------
\* The order in which handleImportFiles works through a batch.

\* The scenes built so far are those of the first files, in input order.
InInputOrder(newScenes, files) ==
  /\ Len(newScenes) <= Len(files)
  /\ \A i \in DOMAIN newScenes : newScenes[i].panorama.fileName = files[i].name

\* A step that starts the decode of a file.
DecodeStarts == imp'.pc = "decode" /\ (imp.pc # "decode" \/ imp'.idx # imp.idx)

\* The batch completes: the last file is persisted and the scenes are
\* appended.
BatchCompletes == imp.pc = "persist" /\ imp'.pc = "idle"

\* C25: the files of a batch are worked through one at a time in input
\* order: the decode of a file starts when the batch starts (the first file)
\* or in the step in which the asset of the file before it has been written
\* to the store (the next file), never while another file is being decoded or
\* encoded; and the scenes the batch appends follow the scenes the project
\* has, one for each file, in input order.
C25_OneFileAtATimeInOrder ==
  [][/\ DecodeStarts =>
          \/ imp.pc = "idle" /\ imp'.idx = 1 /\ imp'.newScenes = <<>>
          \/ /\ imp.pc = "persist"
             /\ imp'.idx = imp.idx + 1
             /\ imp'.files = imp.files
             /\ Len(imp'.newScenes) = imp.idx
             /\ InInputOrder(imp'.newScenes, imp.files)
             /\ imp'.newScenes[imp.idx].id \in DOMAIN idb'
             /\ idb'[imp'.newScenes[imp.idx].id].fileName
                  = imp.files[imp.idx].name
     /\ BatchCompletes =>
          LET old == Scenes(project)
              all == Scenes(project')
          IN /\ Len(all) = Len(old) + Len(imp.files)
             /\ SubSeq(all, 1, Len(old)) = old
             /\ InInputOrder(SubSeq(all, Len(old) + 1, Len(all)), imp.files)
             /\ \A i \in (Len(old) + 1)..Len(all) : all[i].id \in DOMAIN idb'
    ]_vars

\* A batch of two different files is done: the project's scenes are theirs,
\* in the order the files were picked.
C25_Witness ==
  /\ imp.pc = "idle"
  /\ ~importing
  /\ Len(Scenes(project)) = 2
  /\ Scenes(project)[1].panorama.fileName = 2
  /\ Scenes(project)[2].panorama.fileName = 1
  /\ Scenes(project)[1].id[2] < Scenes(project)[2].id[2]

----------------------------------------------------------------------------
\* safeFileName on its own, applied to every name of up to MaxNameLen tokens.

MaxNameLen == 4
NameTokens == {"a", "_"} \cup UnsafeTokens
Names == UNION {[1..n -> NameTokens] : n \in 0..MaxNameLen}

\* A caller passes name to safeFileName and gets the result.
SanitizeName(name) ==
  /\ fname' = [name |-> name, out |-> safeFileName(name)]
  /\ UNCHANGED <<editorVars, saved, exp, vw, norm, probe>>

NextNames == \E name \in Names : SanitizeName(name)

SpecNames == Init /\ [][NextNames]_vars

\* The reading of the sentence, character by character.
RECURSIVE EachReplaced(_)
EachReplaced(name) ==
  IF name = <<>> THEN <<>>
  ELSE <<IF Head(name) \in UnsafeTokens THEN "_" ELSE Head(name)>>
       \o EachReplaced(Tail(name))

RECURSIVE RunsReplaced(_)
RunsReplaced(name) ==
  IF name = <<>> THEN <<>>
  ELSE IF Head(name) \notin UnsafeTokens
  THEN <<Head(name)>> \o RunsReplaced(Tail(name))
  ELSE IF Len(name) > 1 /\ name[2] \in UnsafeTokens
  THEN RunsReplaced(Tail(name))
  ELSE <<"_">> \o RunsReplaced(Tail(name))

RECURSIVE Trimmed(_)
Trimmed(name) ==
  IF name = <<>> THEN <<>>
  ELSE IF Head(name) = "_" THEN Trimmed(Tail(name))
  ELSE IF name[Len(name)] = "_" THEN Trimmed(SubSeq(name, 1, Len(name) - 1))
  ELSE name

OrGeneric(name) == IF name = <<>> THEN <<"file">> ELSE name

\* safeFileName has been called.
Sanitized == fname.out # <<>>

OnlyAllowed(name) ==
  /\ name # <<>>
  /\ \A i \in DOMAIN name : name[i] \notin UnsafeTokens

\* C26 as stated: the result of safeFileName is the input with each
\* character outside [A-Za-z0-9._-] replaced by one underscore, trimmed of
\* leading and trailing underscores, or the generic name when that is empty;
\* it is never empty and holds allowed characters only.
C26_EachCharacterReplaced ==
  Sanitized =>
    /\ fname.out = OrGeneric(Trimmed(EachReplaced(fname.name)))
    /\ OnlyAllowed(fname.out)

\* C26 amended: the result of safeFileName is the input with each maximal
\* run of characters outside [A-Za-z0-9._-] replaced by one underscore,
\* trimmed of leading and trailing underscores, or the generic name when that
\* is empty; it is never empty and holds allowed characters only.
C26_EachRunReplaced ==
  Sanitized =>
    /\ fname.out = OrGeneric(Trimmed(RunsReplaced(fname.name)))
    /\ OnlyAllowed(fname.out)

\* 'a /a' was sanitized to 'a_a': two characters gave one underscore.
C26_Witness ==
  /\ fname.name = <<"a", " ", "/", "a">>
  /\ fname.out = <<"a", "_", "a">>

----------------------------------------------------------------------------
\* The Export viewer button of the editor: onExportViewerClick hands the
\* project and the asset map, without the object URLs, to exportViewer.

\* assetsForExport: the StoredAsset of every entry of the asset map.
assetsForExport(as) == [k \in DOMAIN as |-> as[k].asset]

\* An export that stamps the project, as an edit does.
projectAfterExportTouched(p, t) == touchProject(p, t)

\* The project state after onExportViewerClick: the handler calls no setter
\* of the editor, and exportViewer only reads its arguments.
projectAfterExport(p, t) == p

\* The button is enabled while no import runs and the project has a scene;
\* one exportViewer call is followed at a time.
ExportClick(cap) ==
  /\ ~importing
  /\ Scenes(project) # <<>>
  /\ exp.pc \in {"idle", "done", "failed"}
  /\ exp' = ExpStart(project, assetsForExport(assets), cap)
  /\ project' = projectAfterExport(project, now)
  /\ UNCHANGED <<now, selectedSceneId, selectedHotspotId, linkTargetSceneId,
                 hotspotMode, assets, liveUrls, importing, idb,
                 cachedSafeMaxTex, currentSceneRef, asyncVars>>
  /\ UNCHANGED <<saved, vw, norm, probe, fname>>

NextEditorExport ==
  \/ Tick
  \/ \E m \in {"navigate", "info"} : SetHotspotMode(m)
  \/ \E yaw \in Angles, pitch \in Angles : AddInfoHotspot(yaw, pitch)
  \/ \E files \in Batches, gl \in SessionGl :
       StoreHasRoom(files) /\ ImportStart(files, gl)
  \/ \E outcome \in {"ok", "decodeError", "noContext"} : ImportDecoded(outcome)
  \/ \E ok \in BOOLEAN : ImportEncoded(ok)
  \/ \E ok \in BOOLEAN : ImportPersisted(ok)
  \/ \E cap \in BOOLEAN : ExportClick(cap)
  \/ \E ok \in BOOLEAN : ExportPicked(ok)
  \/ \E ok \in BOOLEAN : ExportWrote(ok)
  \/ \E ok \in BOOLEAN : ExportEmbedded(ok)
  \/ \E ok \in BOOLEAN : ExportStandaloneWrote(ok)

SpecEditorExport == Init /\ [][NextEditorExport]_vars

\* A step of an export: the click, or one of its awaits settling.
ExportSteps == exp' # exp

\* C27: no step of an export, in folder mode or single-file mode, succeeding
\* or failing, changes the project (updatedAt included), the asset map, the
\* live object URLs or the asset store.
C27_ExportWritesNothingBack ==
  [][ExportSteps =>
       /\ project' = project
       /\ assets' = assets
       /\ liveUrls' = liveUrls
       /\ idb' = idb]_vars

\* A folder export of a project with an asset is done, at a clock reading
\* later than the project's last stamp: the project and the asset map are
\* still the ones that were exported.
C27_Witness ==
  /\ exp.pc = "done"
  /\ exp.mode = "folder"
  /\ exp.assetsDir # NoAssets
  /\ exp.project = project
  /\ exp.assets = assetsForExport(assets)
  /\ project.updatedAt < now

----------------------------------------------------------------------------
\* Import batches to their end. Every promise handleImportFiles awaits
\* settles (the decode, the encode and the IndexedDB transaction each resolve
\* or reject), so a step of a batch in flight is eventually taken.

ImportSettles ==
  \/ \E outcome \in {"ok", "decodeError", "noContext"} : ImportDecoded(outcome)
  \/ \E ok \in BOOLEAN : ImportEncoded(ok)
  \/ \E ok \in BOOLEAN : ImportPersisted(ok)

NextImport ==
  \/ Tick
  \/ \E i \in 1..MaxScenes : SelectScene(i)
  \/ \E m \in {"navigate", "info"} : SetHotspotMode(m)
  \/ \E yaw \in Angles, pitch \in Angles : AddInfoHotspot(yaw, pitch)
  \/ \E files \in Batches, gl \in SessionGl :
       StoreHasRoom(files) /\ ImportStart(files, gl)
  \/ ImportSettles

SpecImport == Init /\ [][NextImport]_vars /\ WF_vars(ImportSettles)

\* C28: whenever importing is true, a later state has importing false: every
\* batch that starts ends with the flag cleared, whether it completed or
\* stopped at a failing file.
C28_ImportingEventuallyCleared == importing ~> ~importing

----------------------------------------------------------------------------
\* Link hotspots placed while a load or an import is in flight.

\* This step appends a link hotspot to scene i and selects it: addLinkHotspot.
LinkAddedTo(i) ==
  /\ DOMAIN Scenes(project') = DOMAIN Scenes(project)
  /\ LET old == Scenes(project)[i].hotspots
         new == Scenes(project')[i].hotspots
     IN /\ Len(new) = Len(old) + 1
        /\ SubSeq(new, 1, Len(old)) = old
        /\ new[Len(new)].type = "link"
        /\ new[Len(new)].id = selectedHotspotId'

\* C29: the link hotspot addLinkHotspot appends to a scene has a
\* targetSceneId that is the id of a scene of the project it is appended to
\* and is not the id of the scene that gets it.
C29_LinkTargetIsOtherScene ==
  [][\A i \in DOMAIN Scenes(project) :
       LinkAddedTo(i) =>
         LET scene == Scenes(project')[i]
             h == scene.hotspots[Len(scene.hotspots)]
         IN /\ h.targetSceneId \in SceneIds(project')
            /\ h.targetSceneId # scene.id]_vars

----------------------------------------------------------------------------
\* The editor viewer: which scene's panorama is under the hotspot visuals.

\* The hotspot render effect has drawn the hotspots prop, those of the
\* selected scene, on the renderer scene currentSceneRef holds.
VisualsOnDisplay ==
  /\ HasSelectedScene
  /\ currentSceneRef # NoScene
  /\ selectedScene.hotspots # <<>>

\* This step appends a hotspot to scene i: a click in the viewer.
HotspotAddedTo(i) ==
  /\ DOMAIN Scenes(project') = DOMAIN Scenes(project)
  /\ LET old == Scenes(project)[i].hotspots
         new == Scenes(project')[i].hotspots
     IN /\ Len(new) = Len(old) + 1
        /\ SubSeq(new, 1, Len(old)) = old
        /\ new[Len(new)].id = selectedHotspotId'

\* C30: when hotspot visuals are on display, the renderer scene they are
\* attached to is the one made for the selected scene, whose hotspots they
\* are; and a click in the viewer adds its hotspot to the scene whose
\* panorama is displayed.
C30_VisualsOverOwnPanorama ==
  /\ [](VisualsOnDisplay => currentSceneRef.sceneId = selectedSceneId)
  /\ [][\A i \in DOMAIN Scenes(project) :
          HotspotAddedTo(i) =>
            Scenes(project)[i].id = currentSceneRef.sceneId]_vars

====
